---- MODULE Spec2Model ----
(***************************************************************************)
(* notepush: the notification engine (send_notifications_if_needed), the   *)
(* relay connection that feeds it, the event cache it consults and the     *)
(* HTTP API that maintains the user_info table.                            *)
(***************************************************************************)
EXTENDS Integers, Sequences, FiniteSets, TLC

\* ------------------------------------------------------------------ bounds

\* how many times the clock advances in one behaviour, by one second each
MaxTicks == 1
\* the cache_max_age the cache is created with, in seconds
CacheMaxAge == 1
\* how many HTTP requests are handled while the engine runs
MaxHttpRequests == 2
\* how many EVENT messages the relay connections hand to the engine
MaxCalls == 2
\* how many HTTP requests are handled when only the HTTP API runs
MaxApiRequests == 3
\* how many websocket frames one connection reads when the frames are of
\* every sort
MaxFrames == 11
\* how many seconds pass while the network helper is called alone
MaxHelperTicks == 3
\* how many seconds a fetch_single_event is followed for
MaxFetchSeconds == 8

\* --------------------------------------------------------------- constants

\* relay_connection.rs:17
MAX_CONSECUTIVE_ERRORS == 10

\* nostr_network_helper.rs:8, in seconds
NOTE_FETCH_TIMEOUT == 5

\* 7 * 24 * 60 * 60, notification_manager.rs:152
OneWeek == 7 * 24 * 60 * 60
\* the instant the behaviours start at
T0 == OneWeek + 1000

\* Option<T>: None, or Some(x) with Unwrap(Some(x)) = x
None == <<>>
Some(x) == <<x>>
Unwrap(opt) == opt[1]

Pubkeys == {"pa", "pb", "pc"}
Tokens == {"d1", "d2"}
\* the devices that register: two of pb, one of pc
Devices == {<<"pb", "d1">>, <<"pb", "d2">>, <<"pc", "d1">>}
Conns == {"c1"}
\* the connections whose calls overlap when no mutex wraps the manager
RaceConns == {"c1", "c2"}
\* the events they receive
RaceEvents == {"E0", "E1"}

\* nostr_sdk::Kind, by variant name; "Metadata" stands for every other kind
SupportedKinds ==
    {"TextNote", "EncryptedDirectMessage", "Repost", "GenericRepost",
     "Reaction", "ZapPrivateMessage", "ZapReceipt"}
Kinds == SupportedKinds \cup {"ZapRequest", "Metadata", "MuteList", "ContactList"}

\* --------------------------------------------------------------- events

Tag(k, v) == <<k, v>>

Ev(id, pubkey, kind, created_at, tags, content) ==
    [id |-> id, pubkey |-> pubkey, kind |-> kind, created_at |-> created_at,
     tags |-> tags, content |-> content]

\* The events the relay connections receive. An event id is the hash of the
\* event, so an id stands for one event.
EventList ==
    << Ev("E0", "pa", "TextNote", T0, <<Tag("p", "pb"), Tag("p", "pc")>>, <<"h", "i">>),
       Ev("E1", "pc", "Reaction", T0, <<Tag("e", "E0")>>, <<"+">>),
       Ev("E3", "pc", "TextNote", T0, <<Tag("e", "E5"), Tag("e", "E0")>>, <<"A", "b">>),
       Ev("E4", "pb", "TextNote", T0,
          <<Tag("p", "pb"), Tag("e", "E0"), Tag("p", "pc")>>, <<"b">>),
       Ev("E7", "pa", "TextNote", T0 - OneWeek, <<Tag("p", "pb")>>, <<"a">>),
       Ev("E8", "pa", "ZapRequest", T0, <<Tag("p", "pb")>>, <<>>),
       Ev("E9", "pa", "Metadata", T0, <<Tag("p", "pb")>>, <<>>) >>

\* One more event for every kind the engine supports, and one of the kind
\* ZapRequest: a note of pa that tags pb and refers to E0
KindEvent(kind) ==
    Ev("N_" \o kind, "pa", kind, T0, <<Tag("p", "pb"), Tag("e", "E0")>>,
       <<"h", "i">>)
KindEvents == {KindEvent(kind) : kind \in SupportedKinds \cup {"ZapRequest"}}
KindEventIds == {e.id : e \in KindEvents}

\* A reply chain: E1 above refers to E0, and E10 is a note of pa whose only
\* tag is an e tag to E1
ThreadEvents ==
    {Ev("E10", "pa", "TextNote", T0, <<Tag("e", "E1")>>, <<"h", "i">>)}
ThreadEventIds == {"E1", "E10"}

Events == {EventList[i] : i \in 1..Len(EventList)} \cup KindEvents \cup ThreadEvents
EventIds == {EventList[i].id : i \in 1..Len(EventList)}
EventOf(id) == CHOOSE e \in Events : e.id = id

\* PublicKey::from_hex and EventId::from_hex fail on a string that is not
\* the hex of 32 bytes
PublicKey_from_hex_ok(s) == s # "nothex"
EventId_from_hex_ok(s) == s # "nothex"

RECURSIVE SelectSeq2(_, _)
\* the values of the tags of one kind, in tag order
SelectSeq2(tags, k) ==
    IF tags = <<>> THEN <<>>
    ELSE IF Head(tags)[1] = k
         THEN <<Head(tags)[2]>> \o SelectSeq2(Tail(tags), k)
         ELSE SelectSeq2(Tail(tags), k)

\* Event::get_tags_content: the content of every tag of the kind
get_tags_content(event, k) == SelectSeq2(event.tags, k)

\* Event::get_tag_content: the content of the first tag of the kind, as an
\* Option that holds at most one value
get_tag_content(event, k) ==
    LET all == SelectSeq2(event.tags, k)
    IN  IF all = <<>> THEN <<>> ELSE <<Head(all)>>

Range(s) == {s[i] : i \in 1..Len(s)}

referenced_pubkeys(event) ==
    {v \in Range(get_tags_content(event, "p")) : PublicKey_from_hex_ok(v)}

relevant_pubkeys(event) == referenced_pubkeys(event) \cup {event.pubkey}

referenced_event_ids(event) ==
    {v \in Range(get_tag_content(event, "e")) : EventId_from_hex_ok(v)}

referenced_hashtags(event) == Range(get_tags_content(event, "t"))

\* Strings whose characters matter (content, muted words) are sequences of
\* one-character strings.
LowerOf(ch) ==
    CASE ch = "A" -> "a"
      [] ch = "B" -> "b"
      [] OTHER -> ch

\* str::to_lowercase
to_lowercase(str) == [i \in 1..Len(str) |-> LowerOf(str[i])]

\* str::contains
contains(str, pat) ==
    \E i \in 0..(Len(str) - Len(pat)) :
        \A j \in 1..Len(pat) : str[i + j] = pat[j]

\* ------------------------------------------------------------ sqlite tables

\* a plain INSERT into a table without the primary key
InsertOrReplace_append(table, row) == table \cup {row}

\* INSERT OR REPLACE: the row with the same primary key is dropped first
InsertOrReplace(table, row) == {r \in table : r.id # row.id} \cup {row}

\* a key made of the event id alone
NotificationId_event_only(event_id, pubkey) == <<event_id>>

\* format!("{}:{}", event.id, pubkey), the notifications primary key
NotificationId(event_id, pubkey) == <<event_id, pubkey>>

\* a key made of the pubkey alone
UserInfoId_pubkey_only(pubkey, device_token) == <<pubkey>>

\* format!("{}:{}", pubkey.to_sql_string(), device_token), the user_info key
UserInfoId(pubkey, device_token) == <<pubkey, device_token>>

\* UserNotificationSettings, as the columns' DEFAULT clauses give it
DefaultSettings ==
    [zap_notifications_enabled |-> TRUE,
     mention_notifications_enabled |-> TRUE,
     repost_notifications_enabled |-> TRUE,
     reaction_notifications_enabled |-> TRUE,
     dm_notifications_enabled |-> TRUE,
     only_notifications_from_following_enabled |-> FALSE]

SettingsKeys == DOMAIN DefaultSettings

UserInfoRow(pubkey, device_token, added_at, settings) ==
    [id |-> UserInfoId(pubkey, device_token), pubkey |-> pubkey,
     device_token |-> device_token, added_at |-> added_at,
     settings |-> settings]

\* save_user_device_info: INSERT OR REPLACE of (id, pubkey, device_token,
\* added_at); the settings columns of the new row take their defaults
save_user_device_info(table, pubkey, device_token, t) ==
    InsertOrReplace(table, UserInfoRow(pubkey, device_token, t, DefaultSettings))

\* save_user_device_info_if_not_present: a registration that exists is left
\* as it is
save_user_device_info_if_not_present(table, pubkey, device_token, t) ==
    IF \E r \in table : r.pubkey = pubkey /\ r.device_token = device_token
    THEN table
    ELSE save_user_device_info(table, pubkey, device_token, t)

\* DELETE FROM user_info WHERE pubkey = ?
remove_user_device_info_all_tokens(table, pubkey, device_token) ==
    {r \in table : r.pubkey # pubkey}

\* DELETE FROM user_info WHERE pubkey = ? AND device_token = ?
remove_user_device_info(table, pubkey, device_token) ==
    {r \in table : ~(r.pubkey = pubkey /\ r.device_token = device_token)}

\* an INSERT OR REPLACE of the settings, which creates the row it does not find
save_user_notification_settings_upsert(table, pubkey, device_token, settings) ==
    InsertOrReplace(table, UserInfoRow(pubkey, device_token, T0, settings))

\* UPDATE user_info SET ... WHERE pubkey = ? AND device_token = ?
save_user_notification_settings(table, pubkey, device_token, settings) ==
    {IF r.pubkey = pubkey /\ r.device_token = device_token
     THEN [r EXCEPT !.settings = settings] ELSE r : r \in table}

\* SELECT ... FROM user_info WHERE pubkey = ? AND device_token = ?; query_row
\* fails with QueryReturnedNoRows when there is no such row
get_user_notification_settings(table, pubkey, device_token) ==
    LET rows == {r \in table : r.pubkey = pubkey /\ r.device_token = device_token}
    IN  IF rows = {} THEN None ELSE Some((CHOOSE r \in rows : TRUE).settings)

\* SELECT device_token FROM user_info WHERE pubkey = ?
get_user_device_tokens(table, pubkey) ==
    {r.device_token : r \in {x \in table : x.pubkey = pubkey}}

is_pubkey_registered(table, pubkey) == get_user_device_tokens(table, pubkey) # {}

NotificationRow(event_id, pubkey, sent_at) ==
    [id |-> NotificationId(event_id, pubkey), event_id |-> event_id,
     pubkey |-> pubkey, received_notification |-> TRUE, sent_at |-> sent_at]

\* SELECT pubkey, received_notification FROM notifications WHERE event_id = ?
\* collected into a map from pubkey to the flag
get_notification_status(table, event_id) ==
    {<<r.pubkey, r.received_notification>> : r \in {x \in table : x.event_id = event_id}}

\* NotificationStatus::pubkeys_that_received_notification
pubkeys_that_received_notification(status) ==
    {s[1] : s \in {x \in status : x[2]}}

\* a query that finds no subscriber
pubkeys_subscribed_to_event_id_none(table, event_id) == {}

\* SELECT pubkey FROM notifications WHERE event_id = ?
pubkeys_subscribed_to_event_id(table, event_id) ==
    {r.pubkey : r \in {x \in table : x.event_id = event_id}}

\* the match with ZapRequest taken for a zap kind like its neighbours
is_event_kind_supported_zap_request(kind) ==
    kind \in SupportedKinds \cup {"ZapRequest"}

is_event_kind_supported(kind) ==
    CASE kind = "TextNote" -> TRUE
      [] kind = "EncryptedDirectMessage" -> TRUE
      [] kind = "Repost" -> TRUE
      [] kind = "GenericRepost" -> TRUE
      [] kind = "Reaction" -> TRUE
      [] kind = "ZapPrivateMessage" -> TRUE
      [] kind = "ZapRequest" -> FALSE
      [] kind = "ZapReceipt" -> TRUE
      [] OTHER -> FALSE

\* the gate with a month for a week
is_older_than_a_month(event, t) == event.created_at < t - 30 * 24 * 60 * 60

\* the freshness gate of send_notifications_if_needed
is_older_than_a_week(event, t) == event.created_at < t - OneWeek

\* the match that looks at the preference for mentions whatever the kind
setting_for_kind_mention_only(settings, kind) ==
    settings.mention_notifications_enabled

\* the match on event.kind that ends user_wants_notification
setting_for_kind(settings, kind) ==
    CASE kind = "TextNote" -> settings.mention_notifications_enabled
      [] kind = "EncryptedDirectMessage" -> settings.dm_notifications_enabled
      [] kind = "Repost" -> settings.repost_notifications_enabled
      [] kind = "GenericRepost" -> settings.repost_notifications_enabled
      [] kind = "Reaction" -> settings.reaction_notifications_enabled
      [] kind = "ZapPrivateMessage" -> settings.zap_notifications_enabled
      [] kind = "ZapRequest" -> settings.zap_notifications_enabled
      [] kind = "ZapReceipt" -> settings.zap_notifications_enabled
      [] OTHER -> FALSE

\* ------------------------------------------------------- upstream relay

\* What the upstream relay holds for an author: one mute list (kind 10000)
\* and one contact list (kind 3). A fetch brings the event or nothing.
MuteListTags(p) ==
    CASE p = "pb" -> <<Tag("p", "pa")>>
      [] p = "pc" -> <<Tag("e", "E5"), Tag("e", "E0"), Tag("t", "x")>>
      [] OTHER -> <<Tag("word", <<"a", "B">>)>>

ContactListTags(p) ==
    CASE p = "pb" -> <<Tag("p", "pa")>>
      [] p = "pc" -> <<Tag("p", "pb"), Tag("p", "nothex")>>
      [] OTHER -> <<>>

UpstreamEvent(author, kind) ==
    IF kind = "MuteList"
    THEN Ev("M_" \o author, author, "MuteList", T0, MuteListTags(author), <<>>)
    ELSE Ev("K_" \o author, author, "ContactList", T0, ContactListTags(author), <<>>)

\* fetch_single_event: the event of the subscription, or None after
\* NOTE_FETCH_TIMEOUT
FetchResults(author, kind) == {None, Some(UpstreamEvent(author, kind))}

\* ---------------------------------------------------------------- cache

\* TimeDelta::subtracting
TimeDelta_subtracting(t1, t2) ==
    IF t1 > t2
    THEN [delta_abs_seconds |-> t1 - t2, negative |-> FALSE]
    ELSE [delta_abs_seconds |-> t2 - t1, negative |-> TRUE]

\* CacheEntry::is_expired
is_expired(entry, max_age, t) ==
    LET time_delta == TimeDelta_subtracting(t, entry.added_at)
    IN  time_delta.negative \/ time_delta.delta_abs_seconds > max_age

CacheEntry(event, added_at) == [event |-> event, added_at |-> added_at]

MapInsert(m, k, v) == [x \in DOMAIN m \cup {k} |-> IF x = k THEN v ELSE m[x]]
MapRemove(m, k) == [x \in DOMAIN m \ {k} |-> m[x]]
EmptyMap == <<>>

\* Cache::new
EmptyCache == [entries |-> EmptyMap, mute_lists |-> EmptyMap, contact_lists |-> EmptyMap]

\* MaybeConvertibleToMuteList::to_mute_list
to_mute_list(event) ==
    IF event.kind # "MuteList" THEN None
    ELSE Some([public_keys |-> referenced_pubkeys(event),
          hashtags |-> referenced_hashtags(event),
          event_ids |-> referenced_event_ids(event),
          words |-> Range(get_tags_content(event, "word"))])

\* Cache::add_event
add_event(c, event, t) ==
    LET entry == CacheEntry(Some(event), t)
        c1 == [c EXCEPT !.entries = MapInsert(c.entries, event.id, entry)]
    IN  CASE event.kind = "MuteList" ->
               [c1 EXCEPT !.mute_lists = MapInsert(c1.mute_lists, event.pubkey, entry)]
          [] event.kind = "ContactList" ->
               [c1 EXCEPT !.contact_lists = MapInsert(c1.contact_lists, event.pubkey, entry)]
          [] OTHER -> c1

\* Cache::add_optional_mute_list_with_author
add_optional_mute_list_with_author(c, author, mute_list, t) ==
    IF mute_list # None THEN add_event(c, Unwrap(mute_list), t)
    ELSE [c EXCEPT !.mute_lists = MapInsert(c.mute_lists, author, CacheEntry(None, t))]

\* Cache::add_optional_contact_list_with_author
add_optional_contact_list_with_author(c, author, contact_list, t) ==
    IF contact_list # None THEN add_event(c, Unwrap(contact_list), t)
    ELSE [c EXCEPT !.contact_lists = MapInsert(c.contact_lists, author, CacheEntry(None, t))]

\* Cache::remove_event_from_all_maps
remove_event_from_all_maps(c, event) ==
    IF event = None THEN c
    ELSE [entries |-> MapRemove(c.entries, Unwrap(event).id),
          mute_lists |-> MapRemove(c.mute_lists, Unwrap(event).pubkey),
          contact_lists |-> MapRemove(c.contact_lists, Unwrap(event).pubkey)]

\* The Result of a cache read, with the cache as the read leaves it
CacheOk(value, c) == [ok |-> TRUE, value |-> value, cache |-> c]
CacheNotFound(c) == [ok |-> FALSE, value |-> None, cache |-> c]

\* Cache::get_mute_list
Cache_get_mute_list(c, pubkey, t) ==
    IF pubkey \in DOMAIN c.mute_lists
    THEN LET entry == c.mute_lists[pubkey]
         IN  IF ~is_expired(entry, CacheMaxAge, t)
             THEN IF entry.event # None
                  THEN CacheOk(to_mute_list(Unwrap(entry.event)), c)
                  ELSE CacheNotFound(c)
             ELSE CacheNotFound(
                    remove_event_from_all_maps(
                      [c EXCEPT !.mute_lists = MapRemove(c.mute_lists, pubkey)],
                      entry.event))
    ELSE CacheNotFound(c)

\* Cache::get_contact_list
Cache_get_contact_list(c, pubkey, t) ==
    IF pubkey \in DOMAIN c.contact_lists
    THEN LET entry == c.contact_lists[pubkey]
         IN  IF ~is_expired(entry, CacheMaxAge, t)
             THEN CacheOk(entry.event, c)
             ELSE CacheNotFound(
                    remove_event_from_all_maps(
                      [c EXCEPT !.contact_lists = MapRemove(c.contact_lists, pubkey)],
                      entry.event))
    ELSE CacheNotFound(c)

\* ------------------------------------------------- nostr network helper

\* A lookup's answer, with the cache as it leaves it and whether it fetched
Looked(value, c, fetched) == [value |-> value, cache |-> c, fetched |-> fetched]

\* NostrNetworkHelper::get_public_mute_list; `fetch` is what fetch_single_event
\* brings when the cache has no answer
get_public_mute_list(c, pubkey, t, fetch) ==
    LET got == Cache_get_mute_list(c, pubkey, t)
    IN  IF got.ok THEN Looked(got.value, got.cache, FALSE)
        ELSE Looked(IF fetch = None THEN None ELSE to_mute_list(Unwrap(fetch)),
                    add_optional_mute_list_with_author(got.cache, pubkey, fetch, t),
                    TRUE)

\* NostrNetworkHelper::get_contact_list
get_contact_list(c, pubkey, t, fetch) ==
    LET got == Cache_get_contact_list(c, pubkey, t)
    IN  IF got.ok THEN Looked(got.value, got.cache, FALSE)
        ELSE Looked(fetch,
                    add_optional_contact_list_with_author(got.cache, pubkey, fetch, t),
                    TRUE)

\* the body without the check of the muted public keys
mute_list_mutes_no_pubkeys(mute_list, event) ==
    /\ mute_list # None
    /\ \/ \E muted_event_id \in Unwrap(mute_list).event_ids :
             \/ event.id = muted_event_id
             \/ muted_event_id \in referenced_event_ids(event)
       \/ \E muted_hashtag \in Unwrap(mute_list).hashtags :
             muted_hashtag \in referenced_hashtags(event)
       \/ \E muted_word \in Unwrap(mute_list).words :
             contains(to_lowercase(event.content), to_lowercase(muted_word))

\* the body that mutes when there is no mute list
mute_list_mutes_when_unknown(mute_list, event) ==
    \/ mute_list = None
    \/ mute_list_mutes_no_pubkeys(mute_list, event)
    \/ event.pubkey \in Unwrap(mute_list).public_keys

\* the body of should_mute_notification_for_pubkey, given the mute list
mute_list_mutes(mute_list, event) ==
    /\ mute_list # None
    /\ \/ event.pubkey \in Unwrap(mute_list).public_keys
       \/ \E muted_event_id \in Unwrap(mute_list).event_ids :
             \/ event.id = muted_event_id
             \/ muted_event_id \in referenced_event_ids(event)
       \/ \E muted_hashtag \in Unwrap(mute_list).hashtags :
             muted_hashtag \in referenced_hashtags(event)
       \/ \E muted_word \in Unwrap(mute_list).words :
             contains(to_lowercase(event.content), to_lowercase(muted_word))

\* NostrNetworkHelper::should_mute_notification_for_pubkey
should_mute_notification_for_pubkey(c, event, pubkey, t, fetch) ==
    LET got == get_public_mute_list(c, pubkey, t, fetch)
    IN  [got EXCEPT !.value = mute_list_mutes(got.value, event)]

\* NostrNetworkHelper::does_pubkey_follow_pubkey
does_pubkey_follow_pubkey(c, source_pubkey, target_pubkey, t, fetch) ==
    LET got == get_contact_list(c, source_pubkey, t, fetch)
    IN  [got EXCEPT !.value =
            got.value # None /\ target_pubkey \in referenced_pubkeys(Unwrap(got.value))]

\* ------------------------------------------------------------- NIP-98

\* API_BASE_URL, and format!("{}{}", self.base_url, req.uri().path()): a path
\* is the sequence of its segments (an empty one where two slashes meet)
BaseUrl == "https://host:8000"
Url(path) == <<BaseUrl>> \o path

\* Sha256Hash::hash(body): a hash stands for the body it was computed from
Sha256(body) == [digest_of |-> body]

\* the value of a payload tag: hex or not, 32 bytes or not, and the digest
PayloadHex(body) == [hex |-> TRUE, len32 |-> TRUE, hash |-> Sha256(body)]
PayloadNotHex == [hex |-> FALSE, len32 |-> FALSE, hash |-> Sha256(<<>>)]
PayloadShort == [hex |-> TRUE, len32 |-> FALSE, hash |-> Sha256(<<>>)]

AuthOk(pubkey) == [ok |-> TRUE, pubkey |-> pubkey, err |-> ""]
AuthErr(reason) == [ok |-> FALSE, pubkey |-> "", err |-> reason]

\* the window with the bound on notes from the future exclusive
NoteTooOld_exclusive(t, created_at) ==
    LET time_delta == TimeDelta_subtracting(t, created_at)
    IN  \/ time_delta.negative /\ time_delta.delta_abs_seconds >= 30
        \/ ~time_delta.negative /\ time_delta.delta_abs_seconds > 60

\* the window of nip98_verify_auth_header on TimeDelta::subtracting(now, created_at)
NoteTooOld(t, created_at) ==
    LET time_delta == TimeDelta_subtracting(t, created_at)
    IN  \/ time_delta.negative /\ time_delta.delta_abs_seconds > 30
        \/ ~time_delta.negative /\ time_delta.delta_abs_seconds > 60

\* the body check without the comparison of the two hashes
PayloadError_any_hash(note, body) ==
    LET payload == get_tag_content(note, "payload")
    IN  IF body # None
        THEN IF payload = <<>> THEN "Missing payload tag from Nostr authorization header"
             ELSE IF ~payload[1].hex
                  THEN "Failed to decode hex encoded payload from Nostr authorization header"
             ELSE IF ~payload[1].len32
                  THEN "Failed to convert hex encoded payload to Sha256Hash"
             ELSE ""
        ELSE IF payload # <<>> THEN "Auth note has payload tag but request has no body"
             ELSE ""

\* the body check of nip98_verify_auth_header; "" when it passes
PayloadError(note, body) ==
    LET payload == get_tag_content(note, "payload")
    IN  IF body # None
        THEN IF payload = <<>> THEN "Missing payload tag from Nostr authorization header"
             ELSE IF ~payload[1].hex
                  THEN "Failed to decode hex encoded payload from Nostr authorization header"
             ELSE IF ~payload[1].len32
                  THEN "Failed to convert hex encoded payload to Sha256Hash"
             ELSE IF payload[1].hash # Sha256(Unwrap(body))
                  THEN "Auth note payload hash does not match request body hash"
             ELSE ""
        ELSE IF payload # <<>> THEN "Auth note has payload tag but request has no body"
             ELSE ""

\* the verification without the comparison of the method tag
nip98_verify_auth_header_url_only(auth_header, url, method, body, t) ==
    IF auth_header = <<>> THEN AuthErr("Nostr authorization header missing")
    ELSE IF Len(auth_header) # 2
         THEN AuthErr("Nostr authorization header does not have 2 parts")
    ELSE IF auth_header[1].text # "Nostr"
         THEN AuthErr("Nostr authorization header does not start with Nostr")
    ELSE IF auth_header[2].text = ""
         THEN AuthErr("Nostr authorization header does not have a base64 encoded note")
    ELSE IF auth_header[2].decodes = "notbase64"
         THEN AuthErr("Failed to decode base64 encoded note from Nostr authorization header")
    ELSE IF auth_header[2].decodes = "notjson"
         THEN AuthErr("Could not parse JSON note from authorization header")
    ELSE IF auth_header[2].decodes = "notevent"
         THEN AuthErr("Could not parse Nostr note from JSON")
    ELSE LET note == auth_header[2].note
             authorized_url == get_tag_content(note, "u")
             authorized_method == get_tag_content(note, "method")
         IN  IF note.kind # "HttpAuth"
             THEN AuthErr("Nostr note kind in authorization header is incorrect")
             ELSE IF authorized_url = <<>>
             THEN AuthErr("Missing u tag from Nostr authorization header")
             ELSE IF authorized_method = <<>>
             THEN AuthErr("Missing method tag from Nostr authorization header")
             ELSE IF authorized_url[1] # url
             THEN AuthErr("Auth note url and/or method does not match request")
             ELSE IF NoteTooOld(t, note.created_at)
             THEN AuthErr("Auth note is too old")
             ELSE IF PayloadError(note, body) # ""
             THEN AuthErr(PayloadError(note, body))
             ELSE IF ~note.verifies
             THEN AuthErr("Auth note id or signature is invalid")
             ELSE AuthOk(note.pubkey)

\* nip98_verify_auth_header; auth_header is the sequence of the header's
\* whitespace-separated parts, the second one with what it decodes to
nip98_verify_auth_header(auth_header, url, method, body, t) ==
    IF auth_header = <<>> THEN AuthErr("Nostr authorization header missing")
    ELSE IF Len(auth_header) # 2
         THEN AuthErr("Nostr authorization header does not have 2 parts")
    ELSE IF auth_header[1].text # "Nostr"
         THEN AuthErr("Nostr authorization header does not start with Nostr")
    ELSE IF auth_header[2].text = ""
         THEN AuthErr("Nostr authorization header does not have a base64 encoded note")
    ELSE IF auth_header[2].decodes = "notbase64"
         THEN AuthErr("Failed to decode base64 encoded note from Nostr authorization header")
    ELSE IF auth_header[2].decodes = "notjson"
         THEN AuthErr("Could not parse JSON note from authorization header")
    ELSE IF auth_header[2].decodes = "notevent"
         THEN AuthErr("Could not parse Nostr note from JSON")
    ELSE LET note == auth_header[2].note
             authorized_url == get_tag_content(note, "u")
             authorized_method == get_tag_content(note, "method")
         IN  IF note.kind # "HttpAuth"
             THEN AuthErr("Nostr note kind in authorization header is incorrect")
             ELSE IF authorized_url = <<>>
             THEN AuthErr("Missing u tag from Nostr authorization header")
             ELSE IF authorized_method = <<>>
             THEN AuthErr("Missing method tag from Nostr authorization header")
             ELSE IF authorized_url[1] # url \/ authorized_method[1] # method
             THEN AuthErr("Auth note url and/or method does not match request")
             ELSE IF NoteTooOld(t, note.created_at)
             THEN AuthErr("Auth note is too old")
             ELSE IF PayloadError(note, body) # ""
             THEN AuthErr(PayloadError(note, body))
             ELSE IF ~note.verifies
             THEN AuthErr("Auth note id or signature is invalid")
             ELSE AuthOk(note.pubkey)

\* ------------------------------------------------------------- HTTP API

\* an HTTP request: method, path, Authorization header, body bytes. The body
\* is what parse_http_request makes of the collected bytes: None when they
\* are empty, Some(bytes) otherwise.
\* auth: whether the header is there, whether HeaderValue::to_str succeeds
\* on it, and its parts
Request(method, path, auth, body) ==
    [method |-> method, path |-> path, auth |-> auth, body |-> body]

APIResponse(status, body) == [status |-> status, body |-> body]

\* the outcome of a handler: the response and the table as it leaves it
Handled(status, body, table) ==
    [status |-> status, body |-> body, user_info |-> table]

\* the segments of a path that are not empty
RECURSIVE NonEmptySegments(_)
NonEmptySegments(path) ==
    IF path = <<>> THEN <<>>
    ELSE IF Head(path) = "" THEN NonEmptySegments(Tail(path))
    ELSE <<Head(path)>> \o NonEmptySegments(Tail(path))

RoutePutUserInfo == <<"user-info", ":pubkey", ":deviceToken">>
RoutePreferences == <<"user-info", ":pubkey", ":deviceToken", "preferences">>
IsParam(segment) == segment \in {":pubkey", ":deviceToken"}

\* route_match: None, or Some(the url parameters)
route_match(method, route, req_method, req_path) ==
    LET req_segments == NonEmptySegments(req_path)
    IN  IF method # req_method THEN None
        ELSE IF Len(route) # Len(req_segments) THEN None
        ELSE IF \E i \in 1..Len(route) : ~IsParam(route[i]) /\ route[i] # req_segments[i]
             THEN None
        ELSE Some([pubkey |-> req_segments[2], deviceToken |-> req_segments[3]])

\* APIHandler::authenticate
authenticate(req, body_bytes, t) ==
    IF ~req.auth.present
    THEN [raised |-> FALSE, result |-> AuthErr("Authorization header not found")]
    ELSE IF ~req.auth.ascii
    THEN [raised |-> TRUE, result |-> AuthErr("")]
    ELSE [raised |-> FALSE,
          result |-> nip98_verify_auth_header(
                        req.auth.parts, Url(req.path), req.method, body_bytes, t)]

\* serde: from_value::<UserNotificationSettings>(body) succeeds when each of
\* the six keys is there with a boolean
SettingsFromValue(obj) ==
    IF \A k \in SettingsKeys : k \in DOMAIN obj /\ obj[k] \in {"true", "false"}
    THEN Some([k \in SettingsKeys |-> obj[k] = "true"])
    ELSE None

\* ParsedRequest::body_json: Err on bytes that are not JSON, {} without a body
body_json(body_bytes) ==
    IF body_bytes = None THEN Some(<<>>)
    ELSE IF ~Unwrap(body_bytes).json THEN None
    ELSE Some(Unwrap(body_bytes).obj)

\* the handler with the insert that replaces a registration that exists
handle_user_info_replacing(table, authorized_pubkey, url_params, t) ==
    IF ~PublicKey_from_hex_ok(url_params.pubkey) THEN Handled(400, None, table)
    ELSE IF url_params.pubkey # authorized_pubkey THEN Handled(403, None, table)
    ELSE Handled(200, None,
            save_user_device_info(
                table, url_params.pubkey, url_params.deviceToken, t))

\* APIHandler::handle_user_info
handle_user_info(table, authorized_pubkey, url_params, t) ==
    IF ~PublicKey_from_hex_ok(url_params.pubkey) THEN Handled(400, None, table)
    ELSE IF url_params.pubkey # authorized_pubkey THEN Handled(403, None, table)
    ELSE Handled(200, None,
            save_user_device_info_if_not_present(
                table, url_params.pubkey, url_params.deviceToken, t))

\* the handler without the comparison of the path pubkey and the authorized one
handle_user_info_remove_unchecked(table, authorized_pubkey, url_params) ==
    IF ~PublicKey_from_hex_ok(url_params.pubkey) THEN Handled(400, None, table)
    ELSE Handled(200, None,
            remove_user_device_info(table, url_params.pubkey, url_params.deviceToken))

\* APIHandler::handle_user_info_remove
handle_user_info_remove(table, authorized_pubkey, url_params) ==
    IF ~PublicKey_from_hex_ok(url_params.pubkey) THEN Handled(400, None, table)
    ELSE IF url_params.pubkey # authorized_pubkey THEN Handled(403, None, table)
    ELSE Handled(200, None,
            remove_user_device_info(table, url_params.pubkey, url_params.deviceToken))

\* APIHandler::get_user_settings
get_user_settings(table, authorized_pubkey, url_params) ==
    IF ~PublicKey_from_hex_ok(url_params.pubkey) THEN Handled(400, None, table)
    ELSE IF url_params.pubkey # authorized_pubkey THEN Handled(403, None, table)
    ELSE LET settings == get_user_notification_settings(
                            table, authorized_pubkey, url_params.deviceToken)
         IN  IF settings = None THEN Handled(500, None, table)
             ELSE Handled(200, settings, table)

\* APIHandler::set_user_settings
set_user_settings(table, authorized_pubkey, url_params, body_bytes) ==
    IF ~PublicKey_from_hex_ok(url_params.pubkey) THEN Handled(400, None, table)
    ELSE IF url_params.pubkey # authorized_pubkey THEN Handled(403, None, table)
    ELSE IF body_json(body_bytes) = None THEN Handled(500, None, table)
    ELSE LET settings == SettingsFromValue(Unwrap(body_json(body_bytes)))
         IN  IF settings = None THEN Handled(400, None, table)
             ELSE Handled(200, None,
                     save_user_notification_settings(
                         table, authorized_pubkey, url_params.deviceToken,
                         Unwrap(settings)))

\* APIHandler::handle_parsed_http_request
handle_parsed_http_request(table, req, authorized_pubkey, t) ==
    LET put_info == route_match("PUT", RoutePutUserInfo, req.method, req.path)
        del_info == route_match("DELETE", RoutePutUserInfo, req.method, req.path)
        get_prefs == route_match("GET", RoutePreferences, req.method, req.path)
        put_prefs == route_match("PUT", RoutePreferences, req.method, req.path)
    IN  IF put_info # None
        THEN handle_user_info(table, authorized_pubkey, Unwrap(put_info), t)
        ELSE IF del_info # None
        THEN handle_user_info_remove(table, authorized_pubkey, Unwrap(del_info))
        ELSE IF get_prefs # None
        THEN get_user_settings(table, authorized_pubkey, Unwrap(get_prefs))
        ELSE IF put_prefs # None
        THEN set_user_settings(table, authorized_pubkey, Unwrap(put_prefs), req.body)
        ELSE Handled(404, None, table)

\* APIHandler::handle_http_request for a request that is no websocket
\* upgrade: parse_http_request, the router, and the mapping of errors to
\* 401 and 500
handle_http_request(table, req, t) ==
    LET auth == authenticate(req, req.body, t)
    IN  IF auth.raised THEN Handled(500, None, table)
        ELSE IF ~auth.result.ok THEN Handled(401, None, table)
        ELSE handle_parsed_http_request(table, req, auth.result.pubkey, t)

\* ------------------------------------------------------------------ state

VARIABLES
    now,            \* nostr::Timestamp::now()
    user_info,      \* the rows of table user_info
    notifications,  \* the rows of table notifications (the delivery ledger)
    cache,          \* NostrNetworkHelper.cache
    nm_holder,      \* the connection holding Mutex<NotificationManager>
    frames,         \* per connection: the locals of send_notifications_if_needed
    apns_sent,      \* history: every payload handed to the APNs client
    done,           \* history: the finished send_notifications_if_needed calls
    calls,          \* how many EVENT messages have been taken up
    ticks,          \* how many times the clock has advanced
    http_count,     \* how many HTTP requests have been handled
    http_last,      \* history: the last HTTP request and its response
    probe,          \* history: the last direct call of the network helper
    fetching,       \* the locals of the fetch_single_event under way
    tasks,          \* per task: where it stands between its lock() calls
    locks,          \* the holders of the mutexes db, apns_client and cache
    subscriptions   \* the subscriptions open on the shared nostr client

vars == <<now, user_info, notifications, cache, nm_holder, frames, apns_sent,
          done, calls, ticks, http_count, http_last, probe, fetching,
          tasks, locks, subscriptions>>

\* history: no iteration of run_loop has ended yet
NoIteration == [frame |-> "", ok |-> TRUE, reply |-> None]

\* the locals of a connection that is not inside send_notifications_if_needed.
\* epoch, at, sends, wrote, muted, unmuted, listed, nocontacts and
\* apns_failed are history: what the call saw and did. consecutive_errors
\* is the local of run_loop, open is whether run_loop has not returned;
\* iterations and last are history: how many iterations of run_loop have
\* ended, and the frame, the result and the reply of the last one
IdleFrame ==
    [pc |-> "idle", event |-> "", epoch |-> 0, at |-> 0, status |-> {},
     relevant |-> {}, refs |-> {}, todo |-> {}, registered |-> {},
     notify |-> {}, cur |-> "", tokens |-> {}, sends |-> {}, wrote |-> {},
     muted |-> {}, unmuted |-> {}, listed |-> {}, nocontacts |-> {},
     apns_failed |-> {},
     consecutive_errors |-> 0, open |-> TRUE, iterations |-> 0,
     last |-> NoIteration]

NoHttp == [status |-> 0, prefs |-> {}]

\* history: the network helper has not been called directly yet
NoProbe == [fn |-> ""]

\* no fetch_single_event is under way, and none has been
NoFetch == [pc |-> "idle"]

\* no mutex is held; wrapped tells whether the connections share the manager
\* inside a Mutex
NoLocks == [wrapped |-> TRUE, db |-> None, apns |-> None, cache |-> None]

\* no subscription is open on the client
NoSubscriptions == {}

\* the tasks are not followed lock by lock
NoTasks ==
    /\ tasks = <<>>
    /\ locks = NoLocks
    /\ subscriptions = NoSubscriptions

\* The database file outlives the process: the server starts on the tables
\* an earlier run left, here with one device of pb registered. The cache is
\* in memory and starts empty.
InitTables ==
    /\ now = T0
    /\ user_info = {UserInfoRow("pb", "d2", T0, DefaultSettings)}
    /\ notifications = {}
    /\ cache = EmptyCache
    /\ nm_holder = None
    /\ apns_sent = {}
    /\ done = <<>>
    /\ calls = 0
    /\ ticks = 0
    /\ http_count = 0
    /\ http_last = NoHttp
    /\ probe = NoProbe
    /\ fetching = NoFetch

Init ==
    /\ InitTables
    /\ NoTasks
    /\ frames = [c \in Conns |-> IdleFrame]

\* ------------------------------------------- send_notifications_if_needed

\* RelayMessage::Ok { event_id, status: false, message }
OkReply(event_id) ==
    <<"OK", event_id, FALSE, "blocked: This relay does not store events">>

\* RelayMessage::Notice { message: format!("Unsupported message: {:?}", message) }
NoticeReply(message) == <<"NOTICE", <<"Unsupported message: ", message>>>>

\* handle_client_message, the Event arm after send_notifications_if_needed:
\* an Err of the call leaves the function through the question mark, and no
\* response is made; result is what the call returned ("err" for an Err)
EventReply(event_id, result) ==
    IF result = "err" THEN None ELSE Some(OkReply(event_id))

\* the match of run_loop with the comparison that lets the counter pass the
\* maximum by one
run_loop_closing_late(consecutive_errors, ok) ==
    IF ok THEN [consecutive_errors |-> 0, open |-> TRUE]
    ELSE [consecutive_errors |-> consecutive_errors + 1,
          open |-> ~(consecutive_errors + 1 > MAX_CONSECUTIVE_ERRORS)]

\* run_loop, the match on what the iteration returned: the counter after
\* it, and whether the loop goes on
run_loop(consecutive_errors, ok) ==
    IF ok THEN [consecutive_errors |-> 0, open |-> TRUE]
    ELSE [consecutive_errors |-> consecutive_errors + 1,
          open |-> ~(consecutive_errors + 1 >= MAX_CONSECUTIVE_ERRORS)]

\* the locals of a connection after an iteration of run_loop on a frame of
\* the given sort that returned ok or not, with the reply it sent, if any
EndIteration(f, frame, ok, reply) ==
    [IdleFrame EXCEPT
       !.consecutive_errors = run_loop(f.consecutive_errors, ok).consecutive_errors,
       !.open = run_loop(f.consecutive_errors, ok).open,
       !.iterations = f.iterations + 1,
       !.last = [frame |-> frame, ok |-> ok, reply |-> reply]]

\* the locals f of a call that runs on the connection with locals conn
OnConnection(f, conn) ==
    [f EXCEPT !.consecutive_errors = conn.consecutive_errors,
              !.open = conn.open,
              !.iterations = conn.iterations,
              !.last = conn.last]

\* what a finished call leaves in the history, with the reply that
\* run_loop_iteration sent for the EVENT message
Summary(f, result) ==
    [event |-> f.event, result |-> result, epoch |-> f.epoch, at |-> f.at,
     sends |-> f.sends, wrote |-> f.wrote, muted |-> f.muted,
     unmuted |-> f.unmuted, listed |-> f.listed, nocontacts |-> f.nocontacts,
     apns_failed |-> f.apns_failed, reply |-> EventReply(f.event, result)]

\* the call of connection c goes on with locals f
Continue(c, f) ==
    /\ frames' = [frames EXCEPT ![c] = f]
    /\ UNCHANGED <<nm_holder, done>>

\* the call of connection c returns; the guard of the manager is dropped,
\* run_loop_iteration sends the response if there is one, and run_loop
\* counts the result
Return(c, f, result) ==
    /\ frames' = [frames EXCEPT ![c] =
          EndIteration(f, "EVENT", result # "err", EventReply(f.event, result))]
    /\ nm_holder' = IF nm_holder = Some(c) THEN None ELSE nm_holder
    /\ done' = Append(done, Summary(f, result))

\* relay_connection.rs: self.notification_manager.lock().await
NotificationManagerLockFree == nm_holder = None

\* the locals of a call that starts on event e
StartFrame(e) ==
    [IdleFrame EXCEPT !.event = e, !.epoch = http_count, !.at = now]

\* handle_client_message(Event) up to the gates: the event is older than a
\* week or of an unsupported kind, and the call returns Ok at once
ProcessEventDropped(c, e) ==
    /\ frames[c].pc = "idle"
    /\ frames[c].open
    /\ frames[c].iterations < MaxFrames
    /\ calls < MaxCalls
    /\ NotificationManagerLockFree
    /\ \/ is_older_than_a_week(EventOf(e), now)
       \/ ~is_event_kind_supported(EventOf(e).kind)
    /\ calls' = calls + 1
    /\ done' = Append(done,
          Summary(StartFrame(e),
                  IF is_older_than_a_week(EventOf(e), now) THEN "old" ELSE "unsupported"))
    /\ frames' = [frames EXCEPT ![c] =
          EndIteration(frames[c], "EVENT", TRUE, EventReply(e, "ok"))]
    /\ UNCHANGED <<now, user_info, notifications, cache, nm_holder,
                   apns_sent, ticks, http_count, http_last, probe, fetching,
                   tasks, locks, subscriptions>>

\* handle_client_message(Event): the manager is locked and the event passes
\* both gates
ProcessEventBegin(c, e) ==
    /\ frames[c].pc = "idle"
    /\ frames[c].open
    /\ frames[c].iterations < MaxFrames
    /\ calls < MaxCalls
    /\ NotificationManagerLockFree
    /\ ~is_older_than_a_week(EventOf(e), now)
    /\ is_event_kind_supported(EventOf(e).kind)
    /\ calls' = calls + 1
    /\ nm_holder' = Some(c)
    /\ frames' = [frames EXCEPT ![c] =
          OnConnection([StartFrame(e) EXCEPT !.pc = "status"], frames[c])]
    /\ UNCHANGED <<now, user_info, notifications, cache, apns_sent, done,
                   ticks, http_count, http_last, probe, fetching,
                   tasks, locks, subscriptions>>

\* pubkeys_to_notify_for_event: get_notification_status, then the pubkeys
\* and event ids the event itself names
GetNotificationStatus(c) ==
    LET f == frames[c]
        event == EventOf(f.event)
        refs == referenced_event_ids(event)
        f2 == [f EXCEPT !.status = get_notification_status(notifications, event.id),
                        !.relevant = relevant_pubkeys(event),
                        !.refs = refs]
    IN  /\ f.pc = "status"
        /\ Continue(c, IF refs = {}
                       THEN [f2 EXCEPT !.pc = "registered", !.todo = f2.relevant]
                       ELSE [f2 EXCEPT !.pc = "subscribed"])
        /\ UNCHANGED <<now, user_info, notifications, cache, apns_sent, calls,
                       ticks, http_count, http_last, probe, fetching,
                       tasks, locks, subscriptions>>

\* pubkeys_relevant_to_event: one turn of the loop over referenced_event_ids
PubkeysSubscribed(c) ==
    LET f == frames[c]
    IN  /\ f.pc = "subscribed"
        /\ \E id \in f.refs :
              LET rel == f.relevant \cup pubkeys_subscribed_to_event_id(notifications, id)
                  left == f.refs \ {id}
              IN  Continue(c, IF left = {}
                              THEN [f EXCEPT !.pc = "registered", !.relevant = rel,
                                             !.refs = left, !.todo = rel]
                              ELSE [f EXCEPT !.relevant = rel, !.refs = left])
        /\ UNCHANGED <<now, user_info, notifications, cache, apns_sent, calls,
                       ticks, http_count, http_last, probe, fetching,
                       tasks, locks, subscriptions>>

\* the difference without the pubkeys that received the notification
YetToReceive_no_dedup(f) ==
    {x \in f.registered : x # EventOf(f.event).pubkey}

\* the difference without the filter on the author
YetToReceive_with_author(f) ==
    f.registered \ pubkeys_that_received_notification(f.status)

\* relevant_pubkeys_yet_to_receive of pubkeys_to_notify_for_event
YetToReceive(f) ==
    {x \in f.registered \ pubkeys_that_received_notification(f.status) :
        x # EventOf(f.event).pubkey}

\* pubkeys_to_notify_for_event: the loop over is_pubkey_registered. Each turn
\* reads the rows of one pubkey and an HTTP request writes the rows of one
\* pubkey, so a request between two turns does what it does before or after
\* the loop: the loop is one step.
IsPubkeyRegistered(c) ==
    LET f == frames[c]
        f2 == [f EXCEPT
                 !.registered = {p \in f.todo : is_pubkey_registered(user_info, p)},
                 !.todo = {}]
    IN  /\ f.pc = "registered"
        /\ IF YetToReceive(f2) = {} THEN Return(c, f2, "ok")
           ELSE Continue(c, [f2 EXCEPT !.pc = "mute", !.todo = YetToReceive(f2)])
        /\ UNCHANGED <<now, user_info, notifications, cache, apns_sent, calls,
                       ticks, http_count, http_last, probe, fetching,
                       tasks, locks, subscriptions>>

\* pubkeys_to_notify_for_event: one turn of the loop over should_mute
ShouldMute(c) ==
    LET f == frames[c]
    IN  /\ f.pc = "mute"
        /\ \E p \in f.todo : \E fetch \in FetchResults(p, "MuteList") :
              LET r == should_mute_notification_for_pubkey(
                          cache, EventOf(f.event), p, now, fetch)
                  got == get_public_mute_list(cache, p, now, fetch)
                  f2 == [f EXCEPT
                           !.notify = IF r.value THEN f.notify ELSE f.notify \cup {p},
                           !.muted = IF r.value THEN f.muted \cup {p} ELSE f.muted,
                           !.unmuted = IF r.value THEN f.unmuted ELSE f.unmuted \cup {p},
                           !.listed = IF got.value # None THEN f.listed \cup {p}
                                      ELSE f.listed,
                           !.todo = f.todo \ {p}]
              IN  /\ cache' = r.cache
                  /\ IF f2.todo # {} THEN Continue(c, f2)
                     ELSE IF f2.notify = {} THEN Return(c, f2, "ok")
                     ELSE Continue(c, [f2 EXCEPT !.pc = "tokens"])
        /\ UNCHANGED <<now, user_info, notifications, apns_sent, calls, ticks,
                       http_count, http_last, probe, fetching,
                       tasks, locks, subscriptions>>

\* send_event_notifications_to_pubkey: get_user_device_tokens for the next
\* pubkey of pubkeys_to_notify
GetUserDeviceTokens(c) ==
    LET f == frames[c]
    IN  /\ f.pc = "tokens"
        /\ \E p \in f.notify :
              LET tokens == get_user_device_tokens(user_info, p)
              IN  Continue(c, [f EXCEPT !.cur = p, !.tokens = tokens,
                                        !.pc = IF tokens = {} THEN "record" ELSE "device"])
        /\ UNCHANGED <<now, user_info, notifications, cache, apns_sent, calls,
                       ticks, http_count, http_last, probe, fetching,
                       tasks, locks, subscriptions>>

\* user_wants_notification without the only-from-following branch
user_wants_notification_any_author(c, settings, pubkey, event, t, fetch) ==
    Looked(setting_for_kind(settings, event.kind), c, FALSE)

\* user_wants_notification, given the settings row
user_wants_notification(c, settings, pubkey, event, t, fetch) ==
    IF settings.only_notifications_from_following_enabled
    THEN LET r == does_pubkey_follow_pubkey(c, pubkey, event.pubkey, t, fetch)
         IN  IF ~r.value THEN [r EXCEPT !.value = FALSE]
             ELSE [r EXCEPT !.value = setting_for_kind(settings, event.kind)]
    ELSE Looked(setting_for_kind(settings, event.kind), c, FALSE)

\* history: the contact list lookup of user_wants_notification found no list
NoContactList(c, settings, pubkey, t, fetch) ==
    /\ settings.only_notifications_from_following_enabled
    /\ get_contact_list(c, pubkey, t, fetch).value = None

\* the match that hands the error of the APNs client to the caller
send_event_notification_to_device_token_propagating(apns_ok) == apns_ok

\* send_event_notification_to_device_token, the match on what the APNs
\* client returned: an Err is logged, and the function returns Ok(()) in
\* both arms
send_event_notification_to_device_token(apns_ok) == TRUE

\* send_event_notifications_to_pubkey: one turn of the loop over the device
\* tokens: the settings are read, and the payload is sent if they allow it.
\* What the APNs client answers is logged and changes nothing else.
NotifyDevice(c) ==
    LET f == frames[c]
        event == EventOf(f.event)
    IN  /\ f.pc = "device"
        /\ \E token \in f.tokens :
              LET settings == get_user_notification_settings(user_info, f.cur, token)
                  left == f.tokens \ {token}
                  pc2 == IF left = {} THEN "record" ELSE "device"
              IN  IF settings = None
                  THEN /\ Return(c, f, "err")
                       /\ UNCHANGED <<cache, apns_sent>>
                  ELSE \E fetch \in FetchResults(f.cur, "ContactList") :
                       \E apns_ok \in BOOLEAN :
                          LET r == user_wants_notification(
                                      cache, Unwrap(settings), f.cur, event, now, fetch)
                              f2 == [f EXCEPT
                                       !.tokens = left, !.pc = pc2,
                                       !.nocontacts =
                                          IF NoContactList(cache, Unwrap(settings),
                                                           f.cur, now, fetch)
                                          THEN f.nocontacts \cup {<<f.cur, token>>}
                                          ELSE f.nocontacts]
                              f3 == [f2 EXCEPT
                                       !.sends = f.sends \cup {<<f.cur, token>>},
                                       !.apns_failed =
                                          IF apns_ok THEN f.apns_failed
                                          ELSE f.apns_failed \cup {<<f.cur, token>>}]
                          IN  /\ cache' = r.cache
                              /\ IF r.value
                                 THEN /\ apns_sent' = apns_sent \cup {<<f.event, f.cur, token>>}
                                      /\ IF send_event_notification_to_device_token(apns_ok)
                                         THEN Continue(c, f3)
                                         ELSE Return(c, f3, "err")
                                 ELSE /\ apns_ok
                                      /\ apns_sent' = apns_sent
                                      /\ Continue(c, f2)
        /\ UNCHANGED <<now, user_info, notifications, calls, ticks, http_count,
                       http_last, probe, fetching,
                       tasks, locks, subscriptions>>

\* send_notifications_if_needed: the INSERT OR REPLACE INTO notifications
\* that ends one turn of the loop over pubkeys_to_notify
RecordNotification(c) ==
    LET f == frames[c]
        f2 == [f EXCEPT !.wrote = f.wrote \cup {f.cur},
                        !.notify = f.notify \ {f.cur},
                        !.cur = "", !.pc = "tokens"]
    IN  /\ f.pc = "record"
        /\ notifications' =
              InsertOrReplace(notifications, NotificationRow(f.event, f.cur, now))
        /\ IF f2.notify = {} THEN Return(c, f2, "ok") ELSE Continue(c, f2)
        /\ UNCHANGED <<now, user_info, cache, apns_sent, calls, ticks,
                       http_count, http_last, probe, fetching,
                       tasks, locks, subscriptions>>

\* the clock
Tick ==
    /\ ticks < MaxTicks
    /\ now' = now + 1
    /\ ticks' = ticks + 1
    /\ UNCHANGED <<user_info, notifications, cache, nm_holder, frames,
                   apns_sent, done, calls, http_count, http_last,
                   probe, fetching,
                   tasks, locks, subscriptions>>

\* ------------------------------------------------------- HTTP requests

NoNote == [kind |-> "", tags |-> <<>>, created_at |-> 0, pubkey |-> "", verifies |-> FALSE]
Part(text) == [text |-> text, decodes |-> "", note |-> NoNote]
NotePart(decodes, note) == [text |-> "b64", decodes |-> decodes, note |-> note]
Header(parts) == [present |-> TRUE, ascii |-> TRUE, parts |-> parts]

\* a kind-27235 note signed by pubkey for (method, path, body) at created_at
AuthNote(pubkey, method, path, body, created_at) ==
    [kind |-> "HttpAuth",
     tags |-> <<Tag("u", Url(path)), Tag("method", method)>>
              \o (IF body = None THEN <<>> ELSE <<Tag("payload", PayloadHex(Unwrap(body)))>>),
     created_at |-> created_at, pubkey |-> pubkey, verifies |-> TRUE]

\* the request a client that follows NIP-98 sends as pubkey
SignedRequest(pubkey, method, path, body, t) ==
    Request(method, path,
            Header(<<Part("Nostr"), NotePart("event", AuthNote(pubkey, method, path, body, t))>>),
            body)

SettingsBody(settings) ==
    Some([json |-> TRUE,
          obj |-> [k \in SettingsKeys |-> IF settings[k] THEN "true" ELSE "false"]])

FollowingOnly == [DefaultSettings EXCEPT !.only_notifications_from_following_enabled = TRUE]
MentionsOff == [DefaultSettings EXCEPT !.mention_notifications_enabled = FALSE]

InfoPath(p, d) == <<"user-info", p, d>>
PrefsPath(p, d) == <<"user-info", p, d, "preferences">>

\* the requests of well-behaved clients: register, unregister, set preferences
ClientRequests(t) ==
    { SignedRequest(pd[1], "PUT", <<"user-info", pd[1], pd[2]>>, None, t) : pd \in Devices }
    \cup
    { SignedRequest("pb", "DELETE", <<"user-info", "pb", "d2">>, None, t),
      SignedRequest("pb", "PUT", <<"user-info", "pb", "d1", "preferences">>,
                    SettingsBody(FollowingOnly), t),
      SignedRequest("pb", "PUT", <<"user-info", "pb", "d2", "preferences">>,
                    SettingsBody(MentionsOff), t) }

\* handle_http_request, called while the engine runs
ApiRequest ==
    /\ http_count < MaxHttpRequests
    /\ \E req \in ClientRequests(now) :
          user_info' = handle_http_request(user_info, req, now).user_info
    /\ http_count' = http_count + 1
    /\ UNCHANGED <<now, notifications, cache, nm_holder, frames, apns_sent,
                   done, calls, ticks, http_last, probe, fetching,
                   tasks, locks, subscriptions>>

\* ------------------------------------------------------------------ Spec

\* The relay connections take the manager's mutex for the whole of
\* send_notifications_if_needed, so the calls come one after another and one
\* connection stands for all of them; the HTTP handlers take no such mutex.
Next ==
    \/ \E c \in Conns : \E e \in EventIds : ProcessEventDropped(c, e)
    \/ \E c \in Conns : \E e \in EventIds : ProcessEventBegin(c, e)
    \/ \E c \in Conns : GetNotificationStatus(c)
    \/ \E c \in Conns : PubkeysSubscribed(c)
    \/ \E c \in Conns : IsPubkeyRegistered(c)
    \/ \E c \in Conns : ShouldMute(c)
    \/ \E c \in Conns : GetUserDeviceTokens(c)
    \/ \E c \in Conns : NotifyDevice(c)
    \/ \E c \in Conns : RecordNotification(c)
    \/ ApiRequest
    \/ Tick

Spec == Init /\ [][Next]_vars

\* --------------------------------------------------------------- SpecRace

\* handle_client_message(Event) of a build in which the connections share
\* the manager without a mutex around it (api_request_handler.rs hands
\* Arc<NotificationManager> to RelayConnection::run): the call starts
\* whatever the other connections are doing
ProcessEventBeginUnlocked(c, e) ==
    /\ frames[c].pc = "idle"
    /\ frames[c].open
    /\ calls < MaxCalls
    /\ ~is_older_than_a_week(EventOf(e), now)
    /\ is_event_kind_supported(EventOf(e).kind)
    /\ calls' = calls + 1
    /\ frames' = [frames EXCEPT ![c] =
          OnConnection([StartFrame(e) EXCEPT !.pc = "status"], frames[c])]
    /\ UNCHANGED <<now, user_info, notifications, cache, nm_holder, apns_sent,
                   done, ticks, http_count, http_last, probe, fetching,
                   tasks, locks, subscriptions>>

InitRace ==
    /\ InitTables
    /\ NoTasks
    /\ frames = [c \in RaceConns |-> IdleFrame]

NextRace ==
    \/ \E c \in RaceConns : \E e \in RaceEvents : ProcessEventBeginUnlocked(c, e)
    \/ \E c \in RaceConns : GetNotificationStatus(c)
    \/ \E c \in RaceConns : PubkeysSubscribed(c)
    \/ \E c \in RaceConns : IsPubkeyRegistered(c)
    \/ \E c \in RaceConns : ShouldMute(c)
    \/ \E c \in RaceConns : GetUserDeviceTokens(c)
    \/ \E c \in RaceConns : NotifyDevice(c)
    \/ \E c \in RaceConns : RecordNotification(c)
    \/ Tick

SpecRace == InitRace /\ [][NextRace]_vars

\* -------------------------------------------------------------- SpecRelay

\* what websocket_stream.next() yields: an Err of the websocket (error), or
\* a message that is text or not, whose text is JSON or not, and whose JSON
\* is a client message of some variant (message) or none
RawFrame(name, error, is_text, json, message) ==
    [name |-> name, error |-> error, is_text |-> is_text, json |-> json,
     message |-> message]

\* the frames other than well-formed EVENT messages
RawFrames ==
    { RawFrame("error", TRUE, FALSE, FALSE, None),
      RawFrame("binary", FALSE, FALSE, FALSE, None),
      RawFrame("notjson", FALSE, TRUE, FALSE, None),
      RawFrame("notmessage", FALSE, TRUE, TRUE, None),
      RawFrame("REQ", FALSE, TRUE, TRUE, Some("REQ")),
      RawFrame("CLOSE", FALSE, TRUE, TRUE, Some("CLOSE")) }

\* what an iteration returned and the response it sent, if any
IterationOk(reply) == [ok |-> TRUE, reply |-> reply]
IterationErr == [ok |-> FALSE, reply |-> None]

\* handle_client_message, the arm of the variants other than Event
handle_client_message(message) == NoticeReply(message)

\* the iteration that takes a message other than EVENT for an error
run_loop_iteration_rejecting(raw) ==
    IF raw.error THEN IterationErr
    ELSE IF ~raw.is_text THEN IterationOk(None)
    ELSE IterationErr

\* run_loop_iteration_if_raw_message_is_ok and run_loop_iteration on a
\* frame that is no EVENT message
run_loop_iteration(raw) ==
    IF raw.error THEN IterationErr
    ELSE IF ~raw.is_text THEN IterationOk(None)
    ELSE IF ~raw.json THEN IterationErr
    ELSE IF raw.message = None THEN IterationErr
    ELSE IterationOk(Some(handle_client_message(Unwrap(raw.message))))

\* one turn of the loop of run_loop on a frame that is no EVENT message
RunLoopIteration(c, raw) ==
    /\ frames[c].pc = "idle"
    /\ frames[c].open
    /\ frames[c].iterations < MaxFrames
    /\ frames' = [frames EXCEPT ![c] =
          EndIteration(frames[c], raw.name, run_loop_iteration(raw).ok,
                       run_loop_iteration(raw).reply)]
    /\ UNCHANGED <<now, user_info, notifications, cache, nm_holder, apns_sent,
                   done, calls, ticks, http_count, http_last, probe, fetching,
                   tasks, locks, subscriptions>>

\* the events of the EVENT messages: a mention of the registered pb, a
\* reaction to it, and one of a kind that is not supported
RelayEvents == {"E0", "E1", "E8"}

\* handle_http_request while the connection runs: pb unregisters its device
UnregisterRequest ==
    /\ http_count < MaxHttpRequests
    /\ user_info' = handle_http_request(
                        user_info,
                        SignedRequest("pb", "DELETE", InfoPath("pb", "d2"), None, now),
                        now).user_info
    /\ http_count' = http_count + 1
    /\ UNCHANGED <<now, notifications, cache, nm_holder, frames, apns_sent,
                   done, calls, ticks, http_last, probe, fetching,
                   tasks, locks, subscriptions>>

\* one connection reads frames of every sort while pb unregisters a device
NextRelay ==
    \/ \E c \in Conns : \E raw \in RawFrames : RunLoopIteration(c, raw)
    \/ \E c \in Conns : \E e \in RelayEvents : ProcessEventDropped(c, e)
    \/ \E c \in Conns : \E e \in RelayEvents : ProcessEventBegin(c, e)
    \/ \E c \in Conns : GetNotificationStatus(c)
    \/ \E c \in Conns : PubkeysSubscribed(c)
    \/ \E c \in Conns : IsPubkeyRegistered(c)
    \/ \E c \in Conns : ShouldMute(c)
    \/ \E c \in Conns : GetUserDeviceTokens(c)
    \/ \E c \in Conns : NotifyDevice(c)
    \/ \E c \in Conns : RecordNotification(c)
    \/ UnregisterRequest

SpecRelay == Init /\ [][NextRelay]_vars

\* --------------------------------------------------------------- SpecHttp

\* the Authorization header of a request that carries none
NoHeader == [present |-> FALSE, ascii |-> TRUE, parts |-> <<>>]
\* a header value with a byte HeaderValue::to_str rejects
OpaqueHeader == [present |-> TRUE, ascii |-> FALSE, parts |-> <<>>]

\* the requests of clients that follow NIP-98, as pubkey q on the rows of p
RouteRequests(t) ==
    UNION {
      { SignedRequest(q, "PUT", InfoPath(p, d), None, t),
        SignedRequest(q, "DELETE", InfoPath(p, d), None, t),
        SignedRequest(q, "GET", PrefsPath(p, d), None, t),
        SignedRequest(q, "PUT", PrefsPath(p, d), SettingsBody(FollowingOnly), t) }
      : <<q, p, d>> \in {"pb", "pc"} \X {"pb", "pc", "nothex"} \X Tokens }

\* requests that match no route, and preference bodies serde rejects
OtherRequests(t) ==
    { SignedRequest("pb", "GET", <<"nope">>, None, t),
      SignedRequest("pb", "POST", InfoPath("pb", "d2"), None, t),
      SignedRequest("pb", "PUT", <<"user-info", "pb", "", "d1">>, None, t),
      SignedRequest("pb", "PUT", PrefsPath("pb", "d2"),
                    Some([json |-> FALSE, obj |-> <<>>]), t),
      SignedRequest("pb", "PUT", PrefsPath("pb", "d2"),
                    Some([json |-> TRUE,
                          obj |-> [k \in {"zap_notifications_enabled"} |-> "true"]]), t) }

\* a request with the given Authorization header
WithAuth(method, path, body, auth) == Request(method, path, auth, body)

\* requests whose Authorization header is missing, malformed or not the
\* note this request needs; pb signs, the rows are those of pb
UnauthenticRequests(t) ==
    LET path == InfoPath("pb", "d2")
        prefs == PrefsPath("pb", "d2")
        body == SettingsBody(FollowingOnly)
        other == SettingsBody(MentionsOff)
        note == AuthNote("pb", "DELETE", path, None, t)
        pnote == AuthNote("pb", "PUT", prefs, body, t)
        WithNote(n) == Header(<<Part("Nostr"), NotePart("event", n)>>)
        PayloadTags(v) ==
            <<Tag("u", Url(prefs)), Tag("method", "PUT"), Tag("payload", v)>>
    IN  { WithAuth("DELETE", path, None, a) :
            a \in { NoHeader, OpaqueHeader, Header(<<>>), Header(<<Part("Nostr")>>),
                    Header(<<Part("Nostr"), NotePart("event", note), Part("x")>>),
                    Header(<<Part("Basic"), NotePart("event", note)>>),
                    Header(<<Part("Nostr"), NotePart("notbase64", NoNote)>>),
                    Header(<<Part("Nostr"), NotePart("notjson", NoNote)>>),
                    Header(<<Part("Nostr"), NotePart("notevent", NoNote)>>),
                    WithNote([note EXCEPT !.kind = "TextNote"]),
                    WithNote([note EXCEPT !.tags = <<Tag("method", "DELETE")>>]),
                    WithNote([note EXCEPT !.tags = <<Tag("u", Url(path))>>]),
                    WithNote(AuthNote("pb", "DELETE", InfoPath("pb", "d1"), None, t)),
                    WithNote(AuthNote("pb", "PUT", path, None, t)),
                    WithNote([note EXCEPT !.created_at = t - 61]),
                    WithNote([note EXCEPT !.created_at = t - 60]),
                    WithNote([note EXCEPT !.created_at = t + 30]),
                    WithNote([note EXCEPT !.created_at = t + 31]),
                    WithNote([note EXCEPT !.tags = @ \o <<Tag("payload", PayloadHex(<<>>))>>]),
                    WithNote([note EXCEPT !.verifies = FALSE]) } }
        \cup
        { WithAuth("PUT", prefs, body, a) :
            a \in { WithNote(AuthNote("pb", "PUT", prefs, None, t)),
                    WithNote([pnote EXCEPT !.tags = PayloadTags(PayloadNotHex)]),
                    WithNote([pnote EXCEPT !.tags = PayloadTags(PayloadShort)]),
                    WithNote([pnote EXCEPT !.tags = PayloadTags(PayloadHex(Unwrap(other)))]),
                    WithNote([pnote EXCEPT !.verifies = FALSE]) } }

\* created_at of the notes of WindowRequests, in seconds after the request
WindowOffsets == {-62, -61, -60, -59, -31, -30, -29, -1, 0, 1, 29, 30, 31, 32, 61}

\* requests that are in order but for the age of the note: pb unregisters d2
\* with a note created some seconds before or after the request
WindowRequests(t) ==
    LET path == InfoPath("pb", "d2")
        note == AuthNote("pb", "DELETE", path, None, t)
    IN  { WithAuth("DELETE", path, None,
                   Header(<<Part("Nostr"),
                            NotePart("event", [note EXCEPT !.created_at = t + o])>>)) :
            o \in WindowOffsets }

\* requests whose note has two payload tags, the hash of the body and the
\* hash of other bytes, in either order
PayloadRequests(t) ==
    LET prefs == PrefsPath("pb", "d2")
        body == SettingsBody(FollowingOnly)
        other == SettingsBody(MentionsOff)
        note == AuthNote("pb", "PUT", prefs, None, t)
        right == Tag("payload", PayloadHex(Unwrap(body)))
        wrong == Tag("payload", PayloadHex(Unwrap(other)))
    IN  { WithAuth("PUT", prefs, body,
                   Header(<<Part("Nostr"),
                            NotePart("event", [note EXCEPT !.tags = @ \o tags])>>)) :
            tags \in {<<right, wrong>>, <<wrong, right>>} }

\* requests with a note that pb signed for another URL or another method
\* than the one of the request, or with two u tags
BindingRequests(t) ==
    LET path == InfoPath("pb", "d2")
        note == AuthNote("pb", "DELETE", path, None, t)
        WithNote(n) == Header(<<Part("Nostr"), NotePart("event", n)>>)
        UTags(a, b) == <<Tag("u", Url(a)), Tag("u", Url(b)), Tag("method", "DELETE")>>
    IN  { WithAuth("DELETE", <<"user-info", "pb", "", "d2">>, None, WithNote(note)),
          WithAuth("DELETE", InfoPath("pb", "d1"), None, WithNote(note)),
          WithAuth("DELETE", InfoPath("pc", "d2"), None, WithNote(note)),
          WithAuth("GET", PrefsPath("pb", "d2"), None, WithNote(note)),
          WithAuth("PUT", path, None, WithNote(note)),
          WithAuth("DELETE", path, None,
                   WithNote([note EXCEPT !.tags = <<Tag("u", Url(path)), Tag("method", "delete")>>])),
          WithAuth("DELETE", path, None,
                   WithNote([note EXCEPT !.tags = UTags(InfoPath("pb", "d1"), path)])),
          WithAuth("DELETE", path, None,
                   WithNote([note EXCEPT !.tags = UTags(path, InfoPath("pb", "d1"))])) }

\* preferences with every value the other way round than the defaults
Inverted == [k \in SettingsKeys |-> ~DefaultSettings[k]]

\* pb sets the preferences of its devices
PreferenceRequests(t) ==
    { SignedRequest("pb", "PUT", PrefsPath("pb", d), SettingsBody(settings), t) :
        <<d, settings>> \in Tokens \X {MentionsOff, Inverted} }

\* requests without an Authorization header for a path whose pubkey is no
\* hex key, for the rows of a pubkey, and for a path that matches no route
UnauthenticPaths ==
    { WithAuth("PUT", InfoPath("nothex", "d1"), None, NoHeader),
      WithAuth("GET", PrefsPath("pc", "d1"), None, NoHeader),
      WithAuth("GET", <<"nope">>, None, NoHeader) }

AllRequests(t) ==
    RouteRequests(t) \cup OtherRequests(t) \cup UnauthenticRequests(t)
    \cup UnauthenticPaths
    \cup WindowRequests(t) \cup PayloadRequests(t) \cup BindingRequests(t)
    \cup PreferenceRequests(t)

\* history of the preferences the clients have set: for a pair (pubkey,
\* deviceToken), the settings of the last PUT preferences that was answered
\* 200, whether the pair was registered then, and whether a PUT registration
\* of the pair was answered 200 since; a DELETE answered 200 ends it
PrefsHistory(prefs, req, status, before) ==
    LET put_info == route_match("PUT", RoutePutUserInfo, req.method, req.path)
        del_info == route_match("DELETE", RoutePutUserInfo, req.method, req.path)
        put_prefs == route_match("PUT", RoutePreferences, req.method, req.path)
        Is(e, u) == e.pubkey = u.pubkey /\ e.device_token = u.deviceToken
        Others(u) == {e \in prefs : ~Is(e, u)}
    IN  IF status # 200 THEN prefs
        ELSE IF put_info # None
        THEN {IF Is(e, Unwrap(put_info)) THEN [e EXCEPT !.reregistered = TRUE] ELSE e :
                e \in prefs}
        ELSE IF del_info # None THEN Others(Unwrap(del_info))
        ELSE IF put_prefs # None
        THEN LET u == Unwrap(put_prefs)
             IN  Others(u) \cup
                 {[pubkey |-> u.pubkey, device_token |-> u.deviceToken,
                   settings |-> [k \in SettingsKeys |-> Unwrap(req.body).obj[k] = "true"],
                   registered |-> \E r \in before :
                                     r.pubkey = u.pubkey /\ r.device_token = u.deviceToken,
                   reregistered |-> FALSE]}
        ELSE prefs

\* handle_http_request on any request; the request and what became of it are
\* kept in http_last
HttpRequest ==
    /\ http_count < MaxApiRequests
    /\ \E req \in AllRequests(now) :
          LET r == handle_http_request(user_info, req, now)
          IN  /\ user_info' = r.user_info
              /\ http_last' = [status |-> r.status, body |-> r.body, req |-> req,
                               at |-> now, before |-> user_info,
                               after |-> r.user_info,
                               prefs |-> PrefsHistory(http_last.prefs, req,
                                                      r.status, user_info)]
    /\ http_count' = http_count + 1
    /\ UNCHANGED <<now, notifications, cache, nm_holder, frames, apns_sent,
                   done, calls, ticks, probe, fetching,
                   tasks, locks, subscriptions>>

NextHttp ==
    \/ HttpRequest
    \/ Tick

SpecHttp == Init /\ [][NextHttp]_vars

\* ------------------------------------------------------------- properties

\* the call that finished last
LastDone == done[Len(done)]

\* no HTTP request has been handled since the call of summary s began
Quiet(s) == s.epoch = http_count

\* no call is under way
AllIdle == \A c \in DOMAIN frames : frames[c].pc = "idle"

\* the devices of pubkey p that summary s sent to
SentTokens(s, p) == {d \in Tokens : <<p, d>> \in s.sends}

\* C1: whatever calls of send_notifications_if_needed have run, one after
\* another or overlapping, the ledger holds at most one row for each pair
\* (event_id, pubkey).
C1_OneRecordPerPair ==
    \A r1, r2 \in notifications :
        (r1.event_id = r2.event_id /\ r1.pubkey = r2.pubkey) => r1 = r2

\* two overlapping calls for one event have both written the row of one pubkey
C1_Witness ==
    \E i, j \in DOMAIN done :
        /\ i < j
        /\ done[i].event = done[j].event
        /\ done[i].wrote \cap done[j].wrote # {}

C3_AuthorNeverNotified ==
    /\ \A sent \in apns_sent : sent[2] # EventOf(sent[1]).pubkey
    /\ \A r \in notifications : r.pubkey # EventOf(r.event_id).pubkey
    /\ \A i \in DOMAIN done :
          /\ EventOf(done[i].event).pubkey \notin done[i].wrote
          /\ SentTokens(done[i], EventOf(done[i].event).pubkey) = {}

\* E4 was handled to the end: its author pb is registered, is named by a p
\* tag of E4 and has the row of E0, which E4 refers to; pc was notified
C3_Witness ==
    /\ Len(done) > 0
    /\ LastDone.event = "E4"
    /\ LastDone.result = "ok"
    /\ Quiet(LastDone)
    /\ is_pubkey_registered(user_info, "pb")
    /\ "pb" \in referenced_pubkeys(EventOf("E4"))
    /\ "pb" \in pubkeys_subscribed_to_event_id(notifications, "E0")
    /\ "pc" \in LastDone.wrote

\* C4: a call that starts on an event created more than 7 days before the
\* time of the call never gets past the gate, sends nothing and writes no row.
C4_OldEventsDropped ==
    /\ \A c \in DOMAIN frames :
          frames[c].pc # "idle" =>
             ~(EventOf(frames[c].event).created_at + 7 * 24 * 60 * 60 < frames[c].at)
    /\ \A i \in DOMAIN done :
          EventOf(done[i].event).created_at + 7 * 24 * 60 * 60 < done[i].at
          => (done[i].sends = {} /\ done[i].wrote = {})

\* E7, a mention of the registered pb, arrived one second after it turned a
\* week old
C4_Witness ==
    /\ Len(done) > 0
    /\ LastDone.event = "E7"
    /\ LastDone.at = EventOf("E7").created_at + 7 * 24 * 60 * 60 + 1
    /\ Quiet(LastDone)
    /\ is_pubkey_registered(user_info, "pb")
    /\ "pb" \in referenced_pubkeys(EventOf("E7"))

\* C5: no payload is ever sent and no ledger row ever written for an event
\* whose kind is ZapRequest or any kind other than TextNote,
\* EncryptedDirectMessage, Repost, Reaction, GenericRepost, ZapPrivateMessage
\* and ZapReceipt; no call gets past the gate with such an event.
C5_UnsupportedKindsDropped ==
    LET Notifying == {"TextNote", "EncryptedDirectMessage", "Repost", "Reaction",
                      "GenericRepost", "ZapPrivateMessage", "ZapReceipt"}
    IN  /\ \A sent \in apns_sent : EventOf(sent[1]).kind \in Notifying
        /\ \A r \in notifications : EventOf(r.event_id).kind \in Notifying
        /\ \A c \in DOMAIN frames :
              frames[c].pc # "idle" => EventOf(frames[c].event).kind \in Notifying
        /\ \A i \in DOMAIN done :
              EventOf(done[i].event).kind \notin Notifying
              => (done[i].sends = {} /\ done[i].wrote = {})

\* a ZapRequest and an event of another kind, both mentions of the
\* registered pb, were handled
C5_Witness ==
    /\ Len(done) = 2
    /\ {EventOf(done[1].event).kind, EventOf(done[2].event).kind}
          = {"ZapRequest", "Metadata"}
    /\ Quiet(done[1])
    /\ is_pubkey_registered(user_info, "pb")
    /\ "pb" \in referenced_pubkeys(EventOf(done[1].event))
    /\ "pb" \in referenced_pubkeys(EventOf(done[2].event))

\* the pubkeys that the mute list of p, as the upstream relay holds it, mutes
C6_MutedAuthors(p) == Range(SelectSeq2(MuteListTags(p), "p"))

\* C6: in a call that ends well, a pubkey whose mute list was obtained and
\* names the event's author, and any pubkey found muted, gets no payload and
\* no ledger row; every pubkey found not muted gets its ledger row, and after
\* the last call, if no HTTP request came since it began, each of its devices
\* with default preferences got the payload.
C6_MutedDroppedOthersNotified ==
    /\ \A i \in DOMAIN done :
          LET s == done[i]
          IN  s.result = "ok" =>
                /\ \A p \in s.listed :
                      EventOf(s.event).pubkey \in C6_MutedAuthors(p)
                      => (p \notin s.wrote /\ SentTokens(s, p) = {})
                /\ \A p \in s.muted : p \notin s.wrote /\ SentTokens(s, p) = {}
                /\ s.unmuted \subseteq s.wrote
    /\ (Len(done) > 0 /\ LastDone.result = "ok" /\ Quiet(LastDone)) =>
          \A r \in user_info :
             (r.pubkey \in LastDone.unmuted /\ r.settings = DefaultSettings)
             => <<r.pubkey, r.device_token>> \in LastDone.sends

\* a call found pb muted (its mute list names the author) and sent to pc
C6_Witness ==
    /\ Len(done) > 0
    /\ LastDone.result = "ok"
    /\ "pb" \in LastDone.muted
    /\ "pb" \in LastDone.listed
    /\ EventOf(LastDone.event).pubkey \in C6_MutedAuthors("pb")
    /\ SentTokens(LastDone, "pc") # {}
    /\ "pc" \in LastDone.wrote

\* the event ids named by the e tags of an event, all of them
C7_EventIdsOfAllETags(event) ==
    {v \in Range(get_tags_content(event, "e")) : EventId_from_hex_ok(v)}

\* C7, as the claim states it: after a call that ended well, with nothing
\* else under way and no HTTP request since it began, every pubkey that has a
\* ledger row for an event named by any e tag of the call's event, that is
\* registered, is not the author and is not muted by its mute list, has a
\* ledger row for the call's event.
C7_EveryETagNotifiesSubscribers ==
    (Len(done) > 0 /\ AllIdle /\ LastDone.result = "ok" /\ Quiet(LastDone)) =>
        LET ev == EventOf(LastDone.event)
        IN  \A id \in C7_EventIdsOfAllETags(ev) :
            \A p \in pubkeys_subscribed_to_event_id(notifications, id) :
               (/\ p # ev.pubkey
                /\ is_pubkey_registered(user_info, p)
                /\ ~mute_list_mutes(to_mute_list(UpstreamEvent(p, "MuteList")), ev))
               => \E r \in notifications : r.event_id = ev.id /\ r.pubkey = p

\* the pubkeys in the p tags of the contact list of p, as the relay holds it
C8_Follows(p) == Range(SelectSeq2(ContactListTags(p), "p"))

\* C8: after the last call, if no HTTP request came since it began: a device
\* whose only-from-following preference is set got the payload only if the
\* author is in the p tags of its pubkey's contact list, and did not get it
\* if no contact list was obtained; a device of a notified pubkey without the
\* preference, whose preference for the kind is on, got the payload.
C8_FollowingGatePerDevice ==
    Len(done) > 0 /\ Quiet(LastDone) =>
        \A r \in user_info :
           LET d == <<r.pubkey, r.device_token>>
           IN  IF r.settings.only_notifications_from_following_enabled
               THEN /\ d \in LastDone.sends
                       => EventOf(LastDone.event).pubkey \in C8_Follows(r.pubkey)
                    /\ d \in LastDone.nocontacts => d \notin LastDone.sends
               ELSE (/\ r.pubkey \in LastDone.wrote
                     /\ setting_for_kind(r.settings, EventOf(LastDone.event).kind))
                    => d \in LastDone.sends

\* pb follows the author, but the contact list could not be fetched: the
\* device d1, with the preference, got nothing, and d2, without it, the payload
C8_Witness ==
    /\ Len(done) > 0
    /\ Quiet(LastDone)
    /\ EventOf(LastDone.event).pubkey \in C8_Follows("pb")
    /\ <<"pb", "d1">> \in LastDone.nocontacts
    /\ <<"pb", "d1">> \notin LastDone.sends
    /\ <<"pb", "d2">> \in LastDone.sends
    /\ \E r \in user_info :
          /\ r.pubkey = "pb" /\ r.device_token = "d1"
          /\ r.settings.only_notifications_from_following_enabled
    /\ \E r \in user_info :
          /\ r.pubkey = "pb" /\ r.device_token = "d2"
          /\ ~r.settings.only_notifications_from_following_enabled

\* the url parameters of the last request, if it is for one of the four routes
LastRoute ==
    LET req == http_last.req
        Match(method, route) == route_match(method, route, req.method, req.path)
    IN  IF Match("PUT", RoutePutUserInfo) # None THEN Match("PUT", RoutePutUserInfo)
        ELSE IF Match("DELETE", RoutePutUserInfo) # None
             THEN Match("DELETE", RoutePutUserInfo)
        ELSE IF Match("GET", RoutePreferences) # None
             THEN Match("GET", RoutePreferences)
        ELSE Match("PUT", RoutePreferences)

\* what authenticate made of the last request
LastAuth == authenticate(http_last.req, http_last.req.body, http_last.at)

\* C9: a request for one of the four routes that authenticates as a pubkey
\* other than the pubkey of its path is answered 403 and leaves user_info as
\* it was; and a request that changes user_info is authenticated, and every
\* row it adds, changes or removes is a row of the authenticated pubkey.
C9_OnlyOwnRows ==
    http_last.status # 0 =>
        /\ (/\ ~LastAuth.raised
            /\ LastAuth.result.ok
            /\ LastRoute # None
            /\ PublicKey_from_hex_ok(Unwrap(LastRoute).pubkey)
            /\ Unwrap(LastRoute).pubkey # LastAuth.result.pubkey)
           => (http_last.status = 403 /\ http_last.after = http_last.before)
        /\ http_last.after # http_last.before =>
              /\ ~LastAuth.raised
              /\ LastAuth.result.ok
              /\ \A r \in (http_last.before \ http_last.after)
                          \cup (http_last.after \ http_last.before) :
                    r.pubkey = LastAuth.result.pubkey

\* pc, authenticated, asked to delete a registration of pb that exists
C9_Witness ==
    /\ http_last.status = 403
    /\ http_last.req.method = "DELETE"
    /\ LastAuth.result.pubkey = "pc"
    /\ \E r \in http_last.after :
          /\ r.pubkey = "pb"
          /\ r.pubkey = Unwrap(LastRoute).pubkey
          /\ r.device_token = Unwrap(LastRoute).deviceToken

\* C10, as the claim states it: a request whose authentication does not
\* succeed is answered 401 and leaves user_info as it was.
C10_AuthFailureIs401 ==
    (http_last.status # 0 /\ (LastAuth.raised \/ ~LastAuth.result.ok)) =>
        (http_last.status = 401 /\ http_last.after = http_last.before)

\* the last request carries a header of two parts whose second part decodes
\* to a note
LastHasNote ==
    /\ http_last.status # 0
    /\ http_last.req.auth.present
    /\ http_last.req.auth.ascii
    /\ Len(http_last.req.auth.parts) = 2
    /\ http_last.req.auth.parts[2].decodes = "event"

\* the note of the last request
LastNote == http_last.req.auth.parts[2].note

\* the last request authenticates when its note is created at the time of
\* the request: every check but the one of the age passes
C11_OtherChecksPass ==
    LET fresh == [http_last.req EXCEPT !.auth.parts[2].note.created_at = http_last.at]
    IN  authenticate(fresh, fresh.body, http_last.at).result.ok

\* C11: a request whose note passes every other check authenticates exactly
\* when -30 <= now - created_at <= 60, now being the time of the request:
\* created_at = now + 30 and now - 60 are accepted, now + 31 and now - 61 are
\* rejected with 401, created_at = now is accepted.
C11_TimestampWindow ==
    (LastHasNote /\ C11_OtherChecksPass) =>
        LET age == http_last.at - LastNote.created_at
            inside == -30 <= age /\ age <= 60
        IN  /\ LastAuth.result.ok <=> inside
            /\ http_last.status = 401 <=> ~inside

\* after the clock advanced, a note created 30 seconds after the request was
\* accepted and the registration it names removed
C11_Witness ==
    /\ LastHasNote
    /\ C11_OtherChecksPass
    /\ http_last.at > T0
    /\ LastNote.created_at = http_last.at + 30
    /\ http_last.status = 200
    /\ http_last.after # http_last.before

\* the values of the payload tags of the note of the last request
C12_Payloads ==
    IF LastHasNote THEN get_tags_content(LastNote, "payload") ELSE <<>>

\* a payload tag of the last request is the hex of the SHA-256 of its body
C12_PayloadMatches ==
    \E i \in DOMAIN C12_Payloads :
        /\ C12_Payloads[i].hex
        /\ C12_Payloads[i].len32
        /\ C12_Payloads[i].hash = [digest_of |-> Unwrap(http_last.req.body)]

\* C12: a request with a body authenticates only if its note has a payload
\* tag that is the hex of the SHA-256 of the body; a request without a body
\* authenticates only if its note has no payload tag. A request with a body
\* and no such tag, and a request without a body whose note has a payload
\* tag, are answered 401 and leave user_info as it was.
C12_BodyBinding ==
    http_last.status # 0 =>
        LET body == http_last.req.body
            ok == ~LastAuth.raised /\ LastAuth.result.ok
            unbound == \/ body # None /\ ~C12_PayloadMatches
                       \/ body = None /\ C12_Payloads # <<>>
        IN  /\ ok => ~unbound
            /\ unbound => (http_last.status = 401 /\ http_last.after = http_last.before)

\* a request to set preferences, in order but for the payload tag, which is
\* the hash of another body, was answered 401
C12_Witness ==
    /\ LastHasNote
    /\ http_last.req.body # None
    /\ Len(C12_Payloads) = 1
    /\ C12_Payloads[1].hex
    /\ C12_Payloads[1].len32
    /\ ~C12_PayloadMatches
    /\ LastNote.verifies
    /\ ~NoteTooOld(http_last.at, LastNote.created_at)
    /\ get_tag_content(LastNote, "u") = Some(Url(http_last.req.path))
    /\ get_tag_content(LastNote, "method") = Some(http_last.req.method)
    /\ http_last.status = 401

\* the note of the last request has a u tag that is the base URL followed by
\* the path of the request, and a method tag that is the request method
C13_SignedForRequest ==
    /\ LastHasNote
    /\ \E i \in DOMAIN LastNote.tags :
          LastNote.tags[i] = <<"u", <<"https://host:8000">> \o http_last.req.path>>
    /\ \E i \in DOMAIN LastNote.tags :
          LastNote.tags[i] = <<"method", http_last.req.method>>

\* C13: a request authenticates only if its note has a u tag equal to
\* base_url + path of the request and a method tag equal to its method; a
\* request with a note signed for another path or another method is answered
\* 401 and leaves user_info as it was.
C13_RequestBinding ==
    http_last.status # 0 =>
        /\ (~LastAuth.raised /\ LastAuth.result.ok) => C13_SignedForRequest
        /\ ~C13_SignedForRequest =>
              (http_last.status \in {401, 500} /\ http_last.after = http_last.before)
        /\ (LastHasNote /\ ~C13_SignedForRequest) => http_last.status = 401

\* a valid note that pb signed to PUT a path came with a DELETE of the same
\* path, of a registration that exists: 401, and the registration is there
C13_Witness ==
    /\ LastHasNote
    /\ LastNote.verifies
    /\ LastNote.pubkey = "pb"
    /\ get_tag_content(LastNote, "u") = Some(Url(http_last.req.path))
    /\ get_tag_content(LastNote, "method") = Some("PUT")
    /\ http_last.req.method = "DELETE"
    /\ http_last.status = 401
    /\ http_last.after = http_last.before
    /\ \E r \in http_last.after :
          r.pubkey = "pb" /\ <<"user-info", r.pubkey, r.device_token>> = http_last.req.path

\* the rows of a table for the pair (p, d), and the other rows
RowsOf(table, p, d) == {r \in table : r.pubkey = p /\ r.device_token = d}
RowsBut(table, p, d) == table \ RowsOf(table, p, d)

\* the last request matches method and route, and authenticates as the
\* pubkey of its path
LastIsOwn(method, route) ==
    /\ http_last.status # 0
    /\ route_match(method, route, http_last.req.method, http_last.req.path) # None
    /\ ~LastAuth.raised
    /\ LastAuth.result.ok
    /\ LastAuth.result.pubkey = Unwrap(LastRoute).pubkey

\* C14: user_info never holds two rows for one pair (pubkey, token); an
\* authenticated PUT /user-info/:pubkey/:token is answered 200 and leaves
\* exactly one row for the pair, whether or not the pair was registered
\* before, and the rows of every other pair as they were.
C14_RegistrationIdempotent ==
    /\ \A r1, r2 \in user_info :
          (r1.pubkey = r2.pubkey /\ r1.device_token = r2.device_token) => r1 = r2
    /\ LastIsOwn("PUT", RoutePutUserInfo) =>
          LET u == Unwrap(LastRoute)
          IN  /\ http_last.status = 200
              /\ Cardinality(RowsOf(http_last.after, u.pubkey, u.deviceToken)) = 1
              /\ RowsBut(http_last.after, u.pubkey, u.deviceToken)
                    = RowsBut(http_last.before, u.pubkey, u.deviceToken)

\* pb registered d1 a third time, a second after it did first, while its
\* other device d2 is registered
C14_Witness ==
    /\ LastIsOwn("PUT", RoutePutUserInfo)
    /\ http_count = 3
    /\ Unwrap(LastRoute) = [pubkey |-> "pb", deviceToken |-> "d1"]
    /\ \E r \in RowsOf(http_last.before, "pb", "d1") : r.added_at < http_last.at
    /\ RowsOf(http_last.after, "pb", "d2") # {}
    /\ http_last.status = 200

\* what the history of preferences holds for the pair of the last request
LastPrefs ==
    {e \in http_last.prefs :
        /\ e.pubkey = Unwrap(LastRoute).pubkey
        /\ e.device_token = Unwrap(LastRoute).deviceToken}

C16_PreferencesRoundTrip ==
    LastIsOwn("GET", RoutePreferences) =>
        \A e \in LastPrefs :
           ~e.reregistered =>
              (http_last.status = 200 /\ http_last.body = Some(e.settings))

\* C17: an authenticated DELETE /user-info/:pubkey/:token is answered 200
\* and leaves no row for the pair, so that the token is no longer among the
\* device tokens of the pubkey; the rows of every other pair, other tokens
\* of the same pubkey included, are as they were.
C17_DeleteRemovesOnlyThePair ==
    LastIsOwn("DELETE", RoutePutUserInfo) =>
        LET u == Unwrap(LastRoute)
        IN  /\ http_last.status = 200
            /\ RowsOf(http_last.after, u.pubkey, u.deviceToken) = {}
            /\ RowsBut(http_last.after, u.pubkey, u.deviceToken)
                  = RowsBut(http_last.before, u.pubkey, u.deviceToken)
            /\ get_user_device_tokens(http_last.after, u.pubkey)
                  = get_user_device_tokens(http_last.before, u.pubkey) \ {u.deviceToken}

\* pb registered d1 with a PUT and then unregistered it; its device d2 is
\* still registered
C17_Witness ==
    /\ LastIsOwn("DELETE", RoutePutUserInfo)
    /\ Unwrap(LastRoute) = [pubkey |-> "pb", deviceToken |-> "d1"]
    /\ http_last.status = 200
    /\ RowsOf(http_last.before, "pb", "d1") # {}
    /\ RowsOf(user_info, "pb", "d1") = {}
    /\ get_user_device_tokens(user_info, "pb") = {"d2"}
    /\ is_pubkey_registered(user_info, "pb")

\* C18, as the claim states it: for every EVENT message that was handled,
\* the response ["OK", event.id, false, "blocked: This relay does not store
\* events"] was sent, also when send_notifications_if_needed returned an
\* error.
C18_EveryEventIsAnswered ==
    \A i \in DOMAIN done :
        done[i].reply =
            Some(<<"OK", done[i].event, FALSE, "blocked: This relay does not store events">>)

\* the frames that run_loop_iteration cannot decode or read
C19_BrokenFrames == {"error", "notjson", "notmessage"}

\* C19: on every connection the counter of consecutive errors never exceeds
\* 10 and the connection is closed exactly when it is 10, so it is open
\* after any run of at most 9 errors; an iteration that fails (a frame that
\* cannot be read or decoded, an EVENT whose processing returns an error)
\* adds one to the counter and an iteration that succeeds sets it to 0.
C19_ConsecutiveErrors ==
    /\ [](\A c \in DOMAIN frames :
            /\ frames[c].consecutive_errors <= 10
            /\ frames[c].open <=> frames[c].consecutive_errors < 10
            /\ frames[c].last.frame \in C19_BrokenFrames => ~frames[c].last.ok
            /\ (frames[c].last.frame = "EVENT" /\ frames[c].pc = "idle")
                  => (frames[c].last.ok <=> LastDone.result # "err"))
    /\ [][\A c \in DOMAIN frames :
            frames'[c].iterations # frames[c].iterations =>
               frames'[c].consecutive_errors =
                  IF frames'[c].last.ok THEN 0
                  ELSE frames[c].consecutive_errors + 1]_vars

\* after an iteration that succeeded, ten in a row failed, among them an
\* EVENT message whose processing returned an error: the connection is closed
C19_Witness ==
    /\ \E c \in DOMAIN frames :
          /\ ~frames[c].open
          /\ frames[c].consecutive_errors = 10
          /\ frames[c].iterations = 11
    /\ \E i \in DOMAIN done : done[i].result = "err"

\* the variants of client messages other than EVENT
C20_OtherVariants == {"REQ", "CLOSE"}

\* C20: the iteration on a well-formed client message of a variant other
\* than EVENT sends the response ["NOTICE", "Unsupported message: ..."],
\* succeeds, so that the counter of consecutive errors is 0 after it, starts
\* no call of send_notifications_if_needed, and leaves the ledger, the
\* registrations, the cache and what was sent to APNs as they were.
C20_OtherMessagesGetNotice ==
    /\ [](\A c \in DOMAIN frames :
            (frames[c].last.frame \in C20_OtherVariants /\ frames[c].pc = "idle") =>
               /\ frames[c].last.ok
               /\ frames[c].last.reply =
                     Some(<<"NOTICE", <<"Unsupported message: ", frames[c].last.frame>>>>)
               /\ frames[c].consecutive_errors = 0
               /\ frames[c].open)
    /\ [][\A c \in DOMAIN frames :
            (/\ frames'[c].iterations # frames[c].iterations
             /\ frames'[c].last.frame \in C20_OtherVariants) =>
               /\ frames'[c].pc = "idle"
               /\ UNCHANGED <<notifications, user_info, cache, apns_sent,
                              done, calls, nm_holder,
                              tasks, locks, subscriptions>>]_vars

\* with a row in the ledger and a registration, and after frames of other
\* sorts, a REQ message was answered with the notice
C20_Witness ==
    \E c \in DOMAIN frames :
        /\ frames[c].last.frame = "REQ"
        /\ frames[c].pc = "idle"
        /\ frames[c].last.reply # None
        /\ frames[c].consecutive_errors = 0
        /\ frames[c].iterations > 2
        /\ notifications # {}
        /\ user_info # {}

\* --------------------------------------------- the network helper alone

\* The events the helper is asked about: three of the relay's, one that
\* carries E5 as its second e tag, and one that carries a hashtag
HelperEventList ==
    << EventOf("E0"), EventOf("E3"), EventOf("E4"),
       Ev("E6", "pb", "TextNote", T0, <<Tag("e", "E0"), Tag("e", "E5")>>, <<"h", "i">>),
       Ev("E2", "pb", "TextNote", T0, <<Tag("t", "x")>>, <<"h", "i">>) >>
HelperEvents == {HelperEventList[i] : i \in 1..Len(HelperEventList)}

\* the pubkey whose lists the helper is asked for
HelperPubkey == "pc"

\* a mute list without a tag
EmptyMuteList(author) == Ev("M0_" \o author, author, "MuteList", T0, <<>>, <<>>)

\* a mute list with a tag of every sort
FullMuteList(author) ==
    Ev("M1_" \o author, author, "MuteList", T0,
       <<Tag("p", "pa"), Tag("e", "E5"), Tag("e", "E2"), Tag("t", "x"),
         Tag("word", <<"a", "B">>)>>, <<>>)

\* fetch_single_event for the helper alone: nothing (no such event, a
\* timeout, a dropped connection), an empty mute list or a full one, the
\* contact list of the author
HelperFetchResults(author, kind) ==
    IF kind = "MuteList"
    THEN {None, Some(EmptyMuteList(author)), Some(FullMuteList(author))}
    ELSE FetchResults(author, kind)

\* the cache entry of a pubkey in a map of the cache, if there is one
EntryOf(map, pubkey) ==
    IF pubkey \in DOMAIN map THEN Some(map[pubkey]) ELSE None

\* should_mute_notification_for_pubkey is called for an event and a pubkey;
\* the history keeps the entry the cache held, what the upstream relay
\* answers to a fetch, whether the helper fetched, and the answer
ShouldMuteNotificationForPubkey(event, pubkey) ==
    \E fetch \in HelperFetchResults(pubkey, "MuteList") :
        LET r == should_mute_notification_for_pubkey(cache, event, pubkey, now, fetch)
        IN  /\ cache' = r.cache
            /\ probe' = [fn |-> "should_mute", pubkey |-> pubkey,
                         event |-> event.id, at |-> now,
                         entry |-> EntryOf(cache.mute_lists, pubkey),
                         upstream |-> fetch, fetched |-> r.fetched,
                         value |-> r.value]
            /\ UNCHANGED <<now, user_info, notifications, nm_holder, frames,
                           apns_sent, done, calls, ticks, http_count,
                           http_last, fetching,
                           tasks, locks, subscriptions>>

\* does_pubkey_follow_pubkey is called for a pubkey and the author of an event
DoesPubkeyFollowPubkey(source_pubkey, target_pubkey) ==
    \E fetch \in HelperFetchResults(source_pubkey, "ContactList") :
        LET r == does_pubkey_follow_pubkey(cache, source_pubkey, target_pubkey, now, fetch)
        IN  /\ cache' = r.cache
            /\ probe' = [fn |-> "follows", pubkey |-> source_pubkey,
                         event |-> target_pubkey, at |-> now,
                         entry |-> EntryOf(cache.contact_lists, source_pubkey),
                         upstream |-> fetch, fetched |-> r.fetched,
                         value |-> r.value]
            /\ UNCHANGED <<now, user_info, notifications, nm_holder, frames,
                           apns_sent, done, calls, ticks, http_count,
                           http_last, fetching,
                           tasks, locks, subscriptions>>

\* a second passes between two calls of the helper
HelperTick ==
    /\ ticks < MaxHelperTicks
    /\ ticks' = ticks + 1
    /\ now' = now + 1
    /\ UNCHANGED <<user_info, notifications, cache, nm_holder, frames,
                   apns_sent, done, calls, http_count, http_last, probe,
                   fetching,
                   tasks, locks, subscriptions>>

NextHelper ==
    \/ \E event \in HelperEvents :
          ShouldMuteNotificationForPubkey(event, HelperPubkey)
    \/ \E target_pubkey \in {"pa", "pb"} :
          DoesPubkeyFollowPubkey(HelperPubkey, target_pubkey)
    \/ HelperTick

SpecHelper == Init /\ [][NextHelper]_vars

\* ------------------------------------------------------ cache properties

\* the helper has been called, and the cache held an entry for the pubkey
ProbeHadEntry == probe.fn # "" /\ probe.entry # None

\* how many seconds before the call the entry was inserted
ProbeAge == probe.at - Unwrap(probe.entry).added_at

\* C21: while the cache entry of a pubkey is fresh, a lookup of the mute
\* list or of the contact list is a hit and fetches nothing, whether the
\* entry holds an event or None. Stated for the lookups that come at least
\* a second after the insert and no later than the TTL after it.
C21_FreshEntryIsHit ==
    (ProbeHadEntry /\ ProbeAge \in 1..CacheMaxAge) => ~probe.fetched

\* C22: an entry is expired exactly when now - added_at > TTL: a read in
\* the same second as the insert and a read at exactly the TTL return the
\* entry, a later read does not. Stated for the entries that hold an event.
C22_ExpiredExactlyPastTtl ==
    (ProbeHadEntry /\ Unwrap(probe.entry).event # None)
        => (probe.fetched <=> ProbeAge > CacheMaxAge)

\* ---------------------------------------------------- fetch_single_event

\* What notifications.recv() can bring while a fetch waits: an event of
\* this subscription or of another one, of the kind asked for or of another
\* kind, a relay message or another notification that is no event, and the
\* Err of a receiver that lagged
Notifications ==
    {[sort |-> "Event", own |-> own, kind |-> kind] :
        own \in BOOLEAN, kind \in {"MuteList", "ContactList"}}
    \cup {[sort |-> "Message", own |-> own, kind |-> ""] : own \in BOOLEAN}
    \cup {[sort |-> "Lagged", own |-> FALSE, kind |-> ""]}

\* the test without the subscription id
is_the_event_of_any_subscription(notification, kind) ==
    /\ notification.sort = "Event"
    /\ notification.kind = kind

\* the test of the loop body: the notification is the event looked for
is_the_event(notification, kind) ==
    /\ notification.sort = "Event"
    /\ notification.own
    /\ notification.kind = kind

\* fetch_single_event up to the loop: the subscription is made. elapsed is
\* history: the seconds since then; waited is the age of the timeout of the
\* recv under way
FetchBegin(author, kind) ==
    /\ fetching.pc \in {"idle", "done"}
    /\ fetching' = [pc |-> "recv", author |-> author, kind |-> kind,
                    elapsed |-> 0, waited |-> 0, event |-> None]
    /\ UNCHANGED <<now, user_info, notifications, cache, nm_holder, frames,
                   apns_sent, done, calls, ticks, http_count, http_last,
                   probe,
                   tasks, locks, subscriptions>>

\* a second passes while recv() is pending and its timeout has not fired
FetchSecond ==
    /\ fetching.pc = "recv"
    /\ fetching.waited < NOTE_FETCH_TIMEOUT
    /\ fetching.elapsed < MaxFetchSeconds
    /\ fetching' = [fetching EXCEPT !.elapsed = @ + 1, !.waited = @ + 1]
    /\ UNCHANGED <<now, user_info, notifications, cache, nm_holder, frames,
                   apns_sent, done, calls, ticks, http_count, http_last,
                   probe,
                   tasks, locks, subscriptions>>

\* recv() returns before its timeout: the loop breaks on the event looked
\* for, and goes round with a new timeout on everything else
FetchRecv(notification) ==
    /\ fetching.pc = "recv"
    /\ fetching.waited < NOTE_FETCH_TIMEOUT
    /\ fetching' =
          IF is_the_event(notification, fetching.kind)
          THEN [fetching EXCEPT !.pc = "done",
                   !.event = Some(UpstreamEvent(fetching.author, fetching.kind))]
          ELSE [fetching EXCEPT !.waited = 0]
    /\ UNCHANGED <<now, user_info, notifications, cache, nm_holder, frames,
                   apns_sent, done, calls, ticks, http_count, http_last,
                   probe,
                   tasks, locks, subscriptions>>

\* the timeout of the recv under way fires: the loop ends without an event
FetchTimeout ==
    /\ fetching.pc = "recv"
    /\ fetching.waited = NOTE_FETCH_TIMEOUT
    /\ fetching' = [fetching EXCEPT !.pc = "done"]
    /\ UNCHANGED <<now, user_info, notifications, cache, nm_holder, frames,
                   apns_sent, done, calls, ticks, http_count, http_last,
                   probe,
                   tasks, locks, subscriptions>>

NextFetch ==
    \/ \E kind \in {"MuteList", "ContactList"} : FetchBegin(HelperPubkey, kind)
    \/ FetchSecond
    \/ \E notification \in Notifications : FetchRecv(notification)
    \/ FetchTimeout

SpecFetch == Init /\ [][NextFetch]_vars

\* C23: a fetch_single_event ends, with the event or with None, no later
\* than NOTE_FETCH_TIMEOUT seconds after it was issued, whatever the
\* notification stream delivers meanwhile: it is never still waiting later
C23_FetchEndsWithinTimeout ==
    fetching.pc = "recv" => fetching.elapsed <= NOTE_FETCH_TIMEOUT

\* the finished calls for event e
CallsFor(e) == {i \in DOMAIN done : done[i].event = e}

\* how many of the finished calls for event e sent to device d of pubkey p
SendsTo(e, p, d) == Cardinality({i \in CallsFor(e) : <<p, d>> \in done[i].sends})

\* the rows of the ledger for event e and pubkey p
RowsFor(e, p) == {r \in notifications : r.event_id = e /\ r.pubkey = p}

ProbeList ==
    IF probe.fetched THEN probe.upstream ELSE Unwrap(probe.entry).event

\* C25: should_mute_notification_for_pubkey answers false for every event
\* when the mute list of the pubkey is absent upstream or could not be
\* fetched (the fetch brought nothing), and when it is empty.
C25_NoMuteListNeverMutes ==
    probe.fn = "should_mute" =>
        ((ProbeList = None \/ Unwrap(ProbeList).tags = <<>>) => ~probe.value)

\* the cache held a mute list that mutes the author of E0, the entry had
\* expired, the fetch brought nothing, and E0 was not muted
C25_Witness ==
    /\ probe.fn = "should_mute"
    /\ probe.event = "E0"
    /\ probe.entry = Some(CacheEntry(Some(FullMuteList(HelperPubkey)), T0))
    /\ probe.at - T0 > CacheMaxAge
    /\ probe.fetched
    /\ probe.upstream = None
    /\ ~probe.value

\* C26: a failure of the APNs client for one device is not fatal. After a
\* call in which a send failed, with no HTTP request since the call began:
\* the call returned Ok, the pubkey of the failed send has its ledger row,
\* every pubkey found not muted has its row, and every device with default
\* preferences of such a pubkey was sent the payload.
C26_ApnsFailureNotFatal ==
    (Len(done) > 0 /\ Quiet(LastDone) /\ LastDone.apns_failed # {}) =>
        /\ LastDone.result = "ok"
        /\ \A pd \in LastDone.apns_failed :
              /\ pd[1] \in LastDone.wrote
              /\ RowsFor(LastDone.event, pd[1]) # {}
        /\ LastDone.unmuted \subseteq LastDone.wrote
        /\ \A r \in user_info :
              (r.pubkey \in LastDone.unmuted /\ r.settings = DefaultSettings)
              => <<r.pubkey, r.device_token>> \in LastDone.sends

\* a call had the send to one device fail, sent to another device of the
\* same pubkey and to a device of another pubkey without failure, wrote the
\* rows of both pubkeys and returned Ok
C26_Witness ==
    /\ Len(done) > 0
    /\ Quiet(LastDone)
    /\ LastDone.result = "ok"
    /\ \E pd \in LastDone.apns_failed :
          /\ pd[1] \in LastDone.wrote
          /\ \E d \in Tokens \ {pd[2]} :
                <<pd[1], d>> \in LastDone.sends \ LastDone.apns_failed
          /\ \E q \in LastDone.wrote \ {pd[1]} :
                \E d \in Tokens : <<q, d>> \in LastDone.sends \ LastDone.apns_failed

\* the body of the last request is not JSON, or is a JSON object that lacks
\* one of the six keys or has a value that is no boolean for one of them
C27_BadPreferencesBody ==
    /\ http_last.req.body # None
    /\ LET body == Unwrap(http_last.req.body)
       IN  \/ ~body.json
           \/ \E k \in SettingsKeys :
                 k \notin DOMAIN body.obj \/ body.obj[k] \notin {"true", "false"}

\* C27: a PUT preferences request that authenticates as the pubkey of its
\* path and whose body is malformed JSON, or JSON without one of the six
\* boolean keys or with a non-boolean value, is answered 400 and leaves
\* user_info as it was.
C27_BadPreferencesBodyIs400 ==
    (LastIsOwn("PUT", RoutePreferences) /\ C27_BadPreferencesBody) =>
        (http_last.status = 400 /\ http_last.after = http_last.before)

\* C28: ledger rows are written only on send. In every state, each row
\* (event_id, pubkey) of the ledger was preceded by a payload of that event
\* handed to the APNs client for a device of that pubkey.
C28_RowsOnlyAfterSend ==
    \A r \in notifications :
        \E sent \in apns_sent : sent[1] = r.event_id /\ sent[2] = r.pubkey

\* the event the helper was last asked about
ProbeEvent == CHOOSE event \in HelperEvents : event.id = probe.event

\* what the claim makes of a mute list event and an event: the author is a
\* muted pubkey, the id or any e tag is a muted event id, a t tag is a muted
\* hashtag, or a muted word is in the content whatever the case
C29_Mutes(list, event) ==
    LET muted_pubkeys == Range(get_tags_content(list, "p"))
        muted_ids == Range(get_tags_content(list, "e"))
        muted_hashtags == Range(get_tags_content(list, "t"))
        muted_words == Range(get_tags_content(list, "word"))
    IN  \/ event.pubkey \in muted_pubkeys
        \/ event.id \in muted_ids
        \/ C7_EventIdsOfAllETags(event) \cap muted_ids # {}
        \/ Range(get_tags_content(event, "t")) \cap muted_hashtags # {}
        \/ \E word \in muted_words :
              contains(to_lowercase(event.content), to_lowercase(word))

\* C29: should_mute_notification_for_pubkey answers true if and only if the
\* mute list of the pubkey exists and the author is a muted pubkey, or the
\* event id is a muted event id, or any e tag of the event is a muted event
\* id, or a t tag is a muted hashtag, or a muted word is a case-insensitive
\* substring of the content.
C29_MutesExactlyWhenListed ==
    probe.fn = "should_mute" =>
        (probe.value <=> (ProbeList # None /\ C29_Mutes(Unwrap(ProbeList), ProbeEvent)))

\* ------------------------------------------------------------- SpecKinds

\* the settings with one preference turned the other way
OneFlipped(k) == [DefaultSettings EXCEPT ![k] = ~DefaultSettings[k]]

\* The tables an earlier run left: pb has two devices, the first with the
\* default settings or with one preference turned the other way, the second
\* with the default settings or with mentions turned off
KindTables ==
    {{UserInfoRow("pb", "d1", T0, s1), UserInfoRow("pb", "d2", T0, s2)} :
        s1 \in {DefaultSettings} \cup {OneFlipped(k) : k \in SettingsKeys},
        s2 \in {DefaultSettings, MentionsOff}}

InitKinds ==
    /\ now = T0
    /\ user_info \in KindTables
    /\ notifications = {}
    /\ cache = EmptyCache
    /\ nm_holder = None
    /\ apns_sent = {}
    /\ done = <<>>
    /\ calls = 0
    /\ ticks = 0
    /\ http_count = 0
    /\ http_last = NoHttp
    /\ probe = NoProbe
    /\ fetching = NoFetch
    /\ NoTasks
    /\ frames = [c \in Conns |-> IdleFrame]

\* the engine on events of every kind, with no HTTP request meanwhile
NextKinds ==
    \/ \E c \in Conns : \E e \in KindEventIds : ProcessEventDropped(c, e)
    \/ \E c \in Conns : \E e \in KindEventIds : ProcessEventBegin(c, e)
    \/ \E c \in Conns : GetNotificationStatus(c)
    \/ \E c \in Conns : PubkeysSubscribed(c)
    \/ \E c \in Conns : IsPubkeyRegistered(c)
    \/ \E c \in Conns : ShouldMute(c)
    \/ \E c \in Conns : GetUserDeviceTokens(c)
    \/ \E c \in Conns : NotifyDevice(c)
    \/ \E c \in Conns : RecordNotification(c)

SpecKinds == InitKinds /\ [][NextKinds]_vars

\* the preference the claim selects for a kind
C30_Preference(settings, kind) ==
    CASE kind = "TextNote" -> settings.mention_notifications_enabled
      [] kind = "EncryptedDirectMessage" -> settings.dm_notifications_enabled
      [] kind \in {"Repost", "GenericRepost"} -> settings.repost_notifications_enabled
      [] kind = "Reaction" -> settings.reaction_notifications_enabled
      [] kind \in {"ZapPrivateMessage", "ZapReceipt"} -> settings.zap_notifications_enabled
      [] OTHER -> FALSE

\* C30: in every finished call, a device was sent the event only if the
\* preference that the kind of the event selects is true in the settings of
\* that device; and in a call that ended well, every device of a pubkey
\* found not muted whose settings have that preference true and do not ask
\* for followed authors only was sent the event, whatever the settings of the
\* other devices of the pubkey.
C30_KindPreferencePerDevice ==
    \A i \in DOMAIN done : \A r \in user_info :
        LET s == done[i]
            wanted == C30_Preference(r.settings, EventOf(s.event).kind)
            sent == <<r.pubkey, r.device_token>> \in s.sends
        IN  /\ sent => wanted
            /\ (/\ s.result = "ok"
                /\ r.pubkey \in s.unmuted
                /\ wanted
                /\ ~r.settings.only_notifications_from_following_enabled) => sent

\* a repost reached pb, whose first device has reposts turned off and whose
\* second has mentions turned off: the first got nothing, the second got it
C30_Witness ==
    /\ Len(done) > 0
    /\ EventOf(LastDone.event).kind = "Repost"
    /\ LastDone.result = "ok"
    /\ \E r1, r2 \in user_info :
          /\ r1.pubkey = "pb" /\ r2.pubkey = "pb"
          /\ ~r1.settings.repost_notifications_enabled
          /\ r2.settings = MentionsOff
          /\ <<"pb", r1.device_token>> \notin LastDone.sends
          /\ <<"pb", r2.device_token>> \in LastDone.sends

\* the text frames that are no JSON or no client message
C33_MalformedFrames == {"notjson", "notmessage"}

\* C33: the iteration on a text frame that is no valid JSON or no client
\* message sends a NOTICE and counts as an error: the counter of consecutive
\* errors is at least one after it.
C33_MalformedTextGetsNotice ==
    \A c \in DOMAIN frames :
        frames[c].last.frame \in C33_MalformedFrames =>
            /\ frames[c].last.reply # None
            /\ Unwrap(frames[c].last.reply)[1] = "NOTICE"
            /\ ~frames[c].last.ok
            /\ frames[c].consecutive_errors >= 1

\* the last request authenticated, and matches one of the four routes
C34_AuthenticatedOnRoute ==
    /\ ~LastAuth.raised
    /\ LastAuth.result.ok
    /\ LastRoute # None

\* C34: the checks come in the order authentication, validation of the
\* pubkey parameter, authorisation. A request whose authentication does not
\* succeed is answered 401 whatever its path; an authenticated request for
\* one of the four routes whose pubkey parameter is no hex key is answered
\* 400; one whose pubkey parameter is a key other than the authenticated one
\* is answered 403; user_info is left as it was in the three cases.
C34_ChecksInOrder ==
    http_last.status # 0 =>
        /\ (LastAuth.raised \/ ~LastAuth.result.ok)
              => (http_last.status = 401 /\ http_last.after = http_last.before)
        /\ (C34_AuthenticatedOnRoute
            /\ ~PublicKey_from_hex_ok(Unwrap(LastRoute).pubkey))
              => (http_last.status = 400 /\ http_last.after = http_last.before)
        /\ (C34_AuthenticatedOnRoute
            /\ PublicKey_from_hex_ok(Unwrap(LastRoute).pubkey)
            /\ Unwrap(LastRoute).pubkey # LastAuth.result.pubkey)
              => (http_last.status = 403 /\ http_last.after = http_last.before)

\* the pairs (event_id, pubkey) that have a row in a ledger
LedgerPairs(table) == {<<r.event_id, r.pubkey>> : r \in table}

\* C35: the ledger only grows. Every step keeps every pair (event_id,
\* pubkey) that has a row and adds at most one pair, and a step that handles
\* an HTTP request leaves the ledger as it was.
C35_LedgerOnlyGrows ==
    [][/\ LedgerPairs(notifications) \subseteq LedgerPairs(notifications')
       /\ Cardinality(LedgerPairs(notifications') \ LedgerPairs(notifications)) <= 1
       /\ http_count' # http_count => notifications' = notifications]_vars

\* the row of pb for an event is still there after pb unregistered its only
\* device and a second call of the engine has ended
C35_Witness ==
    /\ Len(done) = 2
    /\ http_count > 0
    /\ get_user_device_tokens(user_info, "pb") = {}
    /\ "pb" \in done[1].wrote
    /\ RowsFor(done[1].event, "pb") # {}

\* C38: a PUT preferences request that authenticates as the pubkey of its
\* path, for a pair (pubkey, token) that has no row, leaves user_info as it
\* was: no row for the pair, every other row unchanged, and the pubkey
\* registered after it exactly when it was before.
C38_PreferencesOfUnregisteredPair ==
    (/\ LastIsOwn("PUT", RoutePreferences)
     /\ RowsOf(http_last.before, Unwrap(LastRoute).pubkey,
               Unwrap(LastRoute).deviceToken) = {}) =>
        /\ http_last.after = http_last.before
        /\ is_pubkey_registered(http_last.after, Unwrap(LastRoute).pubkey)
              = is_pubkey_registered(http_last.before, Unwrap(LastRoute).pubkey)

\* well-formed preferences were put for a pair without a row, while another
\* pair had one, and the request was answered 200
C38_Witness ==
    /\ LastIsOwn("PUT", RoutePreferences)
    /\ RowsOf(http_last.before, Unwrap(LastRoute).pubkey,
              Unwrap(LastRoute).deviceToken) = {}
    /\ http_last.before # {}
    /\ ~C27_BadPreferencesBody
    /\ http_last.status = 200

\* a map of the cache holds an entry for the pubkey that is_expired reports
\* expired, or not, at now; an expired entry is one older than the maximum age
C37_Holds(map, pubkey, expired) ==
    /\ pubkey \in DOMAIN map
    /\ is_expired(map[pubkey], CacheMaxAge, now) = expired
    /\ expired => now - map[pubkey].added_at > CacheMaxAge

\* C37: reading an expired mute-list entry of a pubkey removes only that
\* entry. A call of should_mute_notification_for_pubkey that finds the mute
\* list of the pubkey expired while its contact list is fresh leaves the
\* contact lists of the cache as they were, a call of
\* does_pubkey_follow_pubkey that finds the contact list expired while the
\* mute list is fresh leaves the mute lists as they were, and neither call
\* changes an entry of another pubkey.
C37_ExpiredReadRemovesOnlyThatEntry ==
    [][(now' = now /\ probe'.fn # "") =>
         /\ (/\ probe'.fn = "should_mute"
             /\ C37_Holds(cache.mute_lists, probe'.pubkey, TRUE)
             /\ C37_Holds(cache.contact_lists, probe'.pubkey, FALSE)) =>
                cache'.contact_lists = cache.contact_lists
         /\ (/\ probe'.fn = "follows"
             /\ C37_Holds(cache.contact_lists, probe'.pubkey, TRUE)
             /\ C37_Holds(cache.mute_lists, probe'.pubkey, FALSE)) =>
                cache'.mute_lists = cache.mute_lists
         /\ \A p \in Pubkeys \ {probe'.pubkey} :
               /\ EntryOf(cache'.mute_lists, p) = EntryOf(cache.mute_lists, p)
               /\ EntryOf(cache'.contact_lists, p) = EntryOf(cache.contact_lists, p)]_vars

\* C39: when a call of the engine fails partway with a storage error, every
\* (pubkey, device) that the call already sent to has the row (event,
\* pubkey) in the ledger, and no later call for the same event sends to that
\* device again.
C39_SentBeforeFailureIsRecorded ==
    \A i \in DOMAIN done :
        done[i].result = "err" =>
            \A sent \in done[i].sends :
                /\ RowsFor(done[i].event, sent[1]) # {}
                /\ \A j \in (i + 1)..Len(done) :
                      done[j].event = done[i].event => sent \notin done[j].sends

\* --------------------------------------------------------- reply chains

\* The server starts on the tables an earlier run left: pb is registered
\* with one device and has the ledger row of E0
InitThread ==
    /\ now = T0
    /\ user_info = {UserInfoRow("pb", "d2", T0, DefaultSettings)}
    /\ notifications = {NotificationRow("E0", "pb", T0)}
    /\ cache = EmptyCache
    /\ nm_holder = None
    /\ apns_sent = {}
    /\ done = <<>>
    /\ calls = 0
    /\ ticks = 0
    /\ http_count = 0
    /\ http_last = NoHttp
    /\ probe = NoProbe
    /\ fetching = NoFetch
    /\ NoTasks
    /\ frames = [c \in Conns |-> IdleFrame]

\* the engine on the events of the chain, with no HTTP request meanwhile
NextThread ==
    \/ \E c \in Conns : \E e \in ThreadEventIds : ProcessEventBegin(c, e)
    \/ \E c \in Conns : GetNotificationStatus(c)
    \/ \E c \in Conns : PubkeysSubscribed(c)
    \/ \E c \in Conns : IsPubkeyRegistered(c)
    \/ \E c \in Conns : ShouldMute(c)
    \/ \E c \in Conns : GetUserDeviceTokens(c)
    \/ \E c \in Conns : NotifyDevice(c)
    \/ \E c \in Conns : RecordNotification(c)
    \/ Tick

SpecThread == InitThread /\ [][NextThread]_vars

\* no call of the history before call i wrote the row of the pubkey for the
\* event of call i
C40_NotYetNotified(i, pubkey) ==
    \A j \in 1..(i - 1) : done[j].event = done[i].event => pubkey \notin done[j].wrote

\* call i of the history sent to a device of the pubkey and wrote its row
C40_Notified(i, pubkey) ==
    /\ pubkey \in done[i].wrote
    /\ \E sent \in done[i].sends : sent[1] = pubkey
    /\ RowsFor(done[i].event, pubkey) # {}

\* C40: thread subscription propagates along reply chains. pb is registered
\* and has the ledger row of E0. A call for E1 (a reaction of pc with an e
\* tag to E0) that does not find pb muted, when pb has no row for E1 yet,
\* notifies pb and writes the row (E1, pb); and a call for E10 (a note of pa
\* whose only tag is an e tag to E1) that comes after it and does not find
\* pb muted, when pb has no row for E10 yet, notifies pb too, although pb is
\* p-tagged in neither event.
C40_ThreadSubscriptionPropagates ==
    \A i \in DOMAIN done :
        /\ (/\ done[i].event = "E1"
            /\ C40_NotYetNotified(i, "pb")
            /\ "pb" \notin done[i].muted) => C40_Notified(i, "pb")
        /\ (/\ done[i].event = "E10"
            /\ C40_NotYetNotified(i, "pb")
            /\ "pb" \notin done[i].muted
            /\ \E j \in 1..(i - 1) : done[j].event = "E1" /\ "pb" \in done[j].wrote)
              => C40_Notified(i, "pb")

\* E1 and then E10 have been processed, and the call for E10 sent to pb
C40_Witness ==
    /\ Len(done) = 2
    /\ done[1].event = "E1"
    /\ done[2].event = "E10"
    /\ "pb" \notin referenced_pubkeys(EventOf("E1")) \cup referenced_pubkeys(EventOf("E10"))
    /\ <<"E10", "pb", "d2">> \in apns_sent
    /\ RowsFor("E10", "pb") # {}

\* ------------------------------------------------- mutexes and fetches

\* The tasks followed lock by lock: two websocket connections inside
\* handle_client_message(Event) and one HTTP handler
WsTasks == {"w1", "w2"}
Tasks == WsTasks \cup {"h1"}

\* the mutexes inside the manager
InnerLocks == {"db", "apns", "cache"}

\* send_notifications_if_needed for an event that has one pubkey to notify
\* with one device, as the sequence of the mutexes it locks:
\* get_notification_status, pubkeys_subscribed_to_event_id,
\* is_pubkey_registered, should_mute_notification_for_pubkey,
\* get_user_device_tokens, get_user_notification_settings,
\* does_pubkey_follow_pubkey, send_event_notification_to_device_token and
\* the INSERT OR REPLACE INTO notifications
send_notifications_if_needed_locks ==
    <<"db", "db", "db", "cache", "db", "db", "cache", "apns", "db">>

\* an HTTP handler: one statement on user_info
handler_locks == <<"db">>

ProgramOf(t) ==
    IF t \in WsTasks THEN send_notifications_if_needed_locks ELSE handler_locks

\* the lookup of the fourth step is a mute list, the other a contact list
KindOfLookup(i) == IF i = 4 THEN "MuteList" ELSE "ContactList"

\* a guard that lives to the end of the call
guard_dropped_at_end_of_call(mutex) == mutex # "db"

\* the guard of a mutex is a local of the function (or of the block) that
\* locked it, and is dropped when that returns
guard_dropped(mutex) == TRUE

\* the guard kept over the fetch
cache_guard_kept_over_fetch(kind) == FALSE

\* get_public_mute_list and get_contact_list: the block around the cache
\* read ends, and with it the guard, before fetch_single_event
cache_guard_released_before_fetch(kind) == TRUE

\* no subscription id
NoSubscription == <<>>

\* SubscriptionId::generate(): an id no other subscription has
SubscriptionId_generate(t, i) == <<t, i>>

\* the ids of all the subscriptions the tasks make
SubscriptionIds == {SubscriptionId_generate(t, i) : t \in WsTasks, i \in {4, 7}}

\* a task that has not started. sub and kind are the locals
\* this_subscription_id and kind of the fetch under way; found, accepted
\* and ignored_foreign are history of that fetch: whether the loop broke on
\* an event, the subscription id and the kind that event came with, and
\* whether the loop went round on an event of the kind asked for that was
\* delivered under the subscription of another fetch
NewTask ==
    [pc |-> "start", i |-> 0, sub |-> NoSubscription, kind |-> "", found |-> FALSE,
     accepted |-> None, ignored_foreign |-> FALSE]

\* the locals of a task whose lookup has returned
LookupOver(task) ==
    [task EXCEPT !.sub = NoSubscription, !.kind = "", !.found = FALSE,
                 !.accepted = None, !.ignored_foreign = FALSE]

InitLocks ==
    /\ InitTables
    /\ frames = [c \in Conns |-> IdleFrame]
    /\ tasks = [t \in Tasks |-> NewTask]
    /\ locks \in {[NoLocks EXCEPT !.wrapped = w] : w \in BOOLEAN}
    /\ subscriptions = NoSubscriptions

\* the locals of a task after the step i of its program
Advance(t, task) ==
    IF task.i = Len(ProgramOf(t)) THEN [task EXCEPT !.pc = "end"]
    ELSE [task EXCEPT !.pc = "section", !.i = task.i + 1]

\* the holders after task t drops the guard of a mutex
Dropped(t, mutex) ==
    IF guard_dropped(mutex) THEN [locks EXCEPT ![mutex] = None] ELSE locks

\* handle_client_message(Event): self.notification_manager.lock().await of
\* a connection; an HTTP handler, and a connection that shares the manager
\* without a Mutex, start at once
TaskBegin(t) ==
    /\ tasks[t].pc = "start"
    /\ IF t \in WsTasks /\ locks.wrapped
       THEN /\ NotificationManagerLockFree
            /\ nm_holder' = Some(t)
       ELSE UNCHANGED nm_holder
    /\ tasks' = [tasks EXCEPT ![t] = [@ EXCEPT !.pc = "section", !.i = 1]]
    /\ UNCHANGED <<now, user_info, notifications, cache, frames, apns_sent,
                   done, calls, ticks, http_count, http_last, probe, fetching,
                   locks, subscriptions>>

\* self.db.lock().await, self.apns_client.lock().await and the first
\* self.cache.lock().await of a lookup
TaskLock(t) ==
    LET mutex == ProgramOf(t)[tasks[t].i]
    IN  /\ tasks[t].pc = "section"
        /\ locks[mutex] = None
        /\ locks' = [locks EXCEPT ![mutex] = Some(t)]
        /\ tasks' = [tasks EXCEPT ![t] = [@ EXCEPT !.pc = "locked"]]
        /\ UNCHANGED <<now, user_info, notifications, cache, nm_holder, frames,
                       apns_sent, done, calls, ticks, http_count, http_last,
                       probe, fetching, subscriptions>>

\* the function that locked db or apns_client returns, or the cache had the
\* answer: the guard is dropped
TaskUnlock(t) ==
    LET mutex == ProgramOf(t)[tasks[t].i]
    IN  /\ tasks[t].pc = "locked"
        /\ locks' = Dropped(t, mutex)
        /\ tasks' = [tasks EXCEPT ![t] = Advance(t, @)]
        /\ UNCHANGED <<now, user_info, notifications, cache, nm_holder, frames,
                       apns_sent, done, calls, ticks, http_count, http_last,
                       probe, fetching, subscriptions>>

\* the cache had no answer: the block of the read ends and the lookup goes
\* on to fetch_single_event
CacheMiss(t) ==
    LET kind == KindOfLookup(tasks[t].i)
    IN  /\ tasks[t].pc = "locked"
        /\ ProgramOf(t)[tasks[t].i] = "cache"
        /\ locks' = IF cache_guard_released_before_fetch(kind)
                    THEN Dropped(t, "cache") ELSE locks
        /\ tasks' = [tasks EXCEPT ![t] = [@ EXCEPT !.pc = "subscribe", !.kind = kind]]
        /\ UNCHANGED <<now, user_info, notifications, cache, nm_holder, frames,
                       apns_sent, done, calls, ticks, http_count, http_last,
                       probe, fetching, subscriptions>>

\* fetch_single_event: self.client.subscribe(...), which opens a
\* subscription under an id of its own
Subscribe(t) ==
    /\ tasks[t].pc = "subscribe"
    /\ subscriptions' = subscriptions \cup {SubscriptionId_generate(t, tasks[t].i)}
    /\ tasks' = [tasks EXCEPT ![t] =
          [@ EXCEPT !.pc = "recv", !.sub = SubscriptionId_generate(t, tasks[t].i)]]
    /\ UNCHANGED <<now, user_info, notifications, cache, nm_holder, frames,
                   apns_sent, done, calls, ticks, http_count, http_last,
                   probe, fetching, locks>>

\* fetch_single_event: notifications.recv() brings an event delivered under
\* its own subscription or under that of another fetch, open or closed since
\* the event was queued, of either kind
Recv(t, subscription_id, kind) ==
    LET notification == [sort |-> "Event", own |-> subscription_id = tasks[t].sub,
                         kind |-> kind]
    IN  /\ tasks[t].pc = "recv"
        /\ subscription_id = tasks[t].sub => subscription_id \in subscriptions
        /\ tasks' = [tasks EXCEPT ![t] =
              IF is_the_event(notification, tasks[t].kind)
              THEN [@ EXCEPT !.pc = "unsubscribe", !.found = TRUE,
                             !.accepted = Some(<<subscription_id, kind>>)]
              ELSE [@ EXCEPT !.ignored_foreign =
                       @ \/ (subscription_id # tasks[t].sub /\ kind = tasks[t].kind)]]
        /\ UNCHANGED <<now, user_info, notifications, cache, nm_holder, frames,
                       apns_sent, done, calls, ticks, http_count, http_last,
                       probe, fetching, locks, subscriptions>>

\* fetch_single_event: the timeout of recv() fires and the loop ends
RecvTimeout(t) ==
    /\ tasks[t].pc = "recv"
    /\ tasks' = [tasks EXCEPT ![t] = [@ EXCEPT !.pc = "unsubscribe"]]
    /\ UNCHANGED <<now, user_info, notifications, cache, nm_holder, frames,
                   apns_sent, done, calls, ticks, http_count, http_last,
                   probe, fetching, locks, subscriptions>>

\* fetch_single_event: self.client.unsubscribe(this_subscription_id), and
\* the return
Unsubscribe(t) ==
    /\ tasks[t].pc = "unsubscribe"
    /\ subscriptions' = subscriptions \ {tasks[t].sub}
    /\ tasks' = [tasks EXCEPT ![t] = [@ EXCEPT !.pc = "insert"]]
    /\ UNCHANGED <<now, user_info, notifications, cache, nm_holder, frames,
                   apns_sent, done, calls, ticks, http_count, http_last,
                   probe, fetching, locks>>

\* the second self.cache.lock().await of a lookup, for the insert
InsertLock(t) ==
    /\ tasks[t].pc = "insert"
    /\ locks.cache = None
    /\ locks' = [locks EXCEPT !.cache = Some(t)]
    /\ tasks' = [tasks EXCEPT ![t] = [@ EXCEPT !.pc = "inserting"]]
    /\ UNCHANGED <<now, user_info, notifications, cache, nm_holder, frames,
                   apns_sent, done, calls, ticks, http_count, http_last,
                   probe, fetching, subscriptions>>

\* the lookup returns what it fetched, and the guard is dropped
InsertUnlock(t) ==
    /\ tasks[t].pc = "inserting"
    /\ locks' = Dropped(t, "cache")
    /\ tasks' = [tasks EXCEPT ![t] = Advance(t, LookupOver(@))]
    /\ UNCHANGED <<now, user_info, notifications, cache, nm_holder, frames,
                   apns_sent, done, calls, ticks, http_count, http_last,
                   probe, fetching, subscriptions>>

\* send_notifications_if_needed returns before the end of the sequence: a ?
\* on an Err, or no pubkey or no device left to serve
EarlyReturn(t) ==
    /\ t \in WsTasks
    /\ tasks[t].pc = "section"
    /\ tasks[t].i > 1
    /\ tasks' = [tasks EXCEPT ![t] = [@ EXCEPT !.pc = "end"]]
    /\ UNCHANGED <<now, user_info, notifications, cache, nm_holder, frames,
                   apns_sent, done, calls, ticks, http_count, http_last,
                   probe, fetching, locks, subscriptions>>

\* the call returns; the guard of the manager, if the task has it, is
\* dropped with every guard that still lives
TaskEnd(t) ==
    /\ tasks[t].pc = "end"
    /\ nm_holder' = IF nm_holder = Some(t) THEN None ELSE nm_holder
    /\ locks' = [m \in DOMAIN locks |->
                    IF m \in InnerLocks /\ locks[m] = Some(t) THEN None ELSE locks[m]]
    /\ tasks' = [tasks EXCEPT ![t] = [@ EXCEPT !.pc = "done"]]
    /\ UNCHANGED <<now, user_info, notifications, cache, frames, apns_sent,
                   done, calls, ticks, http_count, http_last, probe, fetching,
                   subscriptions>>

\* the steps of one task
TaskStep(t) ==
    \/ TaskBegin(t)
    \/ TaskLock(t)
    \/ TaskUnlock(t)
    \/ CacheMiss(t)
    \/ Subscribe(t)
    \/ \E subscription_id \in SubscriptionIds :
       \E kind \in {"MuteList", "ContactList"} : Recv(t, subscription_id, kind)
    \/ RecvTimeout(t)
    \/ Unsubscribe(t)
    \/ InsertLock(t)
    \/ InsertUnlock(t)
    \/ EarlyReturn(t)
    \/ TaskEnd(t)

NextLocks == \E t \in Tasks : TaskStep(t)

SpecLocks == InitLocks /\ [][NextLocks]_vars

\* tokio runs every task that can run, its Mutex hands the lock to the
\* waiters in the order they came, and the relay and the APNs client answer:
\* a task whose next step stays possible takes it, and a recv() ends
SpecLocksFair ==
    /\ SpecLocks
    /\ \A t \in Tasks :
          /\ WF_vars(TaskBegin(t) \/ TaskLock(t) \/ TaskUnlock(t) \/ Subscribe(t)
                     \/ Unsubscribe(t) \/ InsertLock(t) \/ InsertUnlock(t)
                     \/ TaskEnd(t))
          /\ WF_vars(RecvTimeout(t))

\* task t is inside fetch_single_event
InFetch(t) == tasks[t].pc \in {"subscribe", "recv", "unsubscribe"}

C32_OwnSubscriptionOnly ==
    \A t \in Tasks :
        /\ tasks[t].pc \in {"recv", "unsubscribe"} =>
              /\ tasks[t].sub \in subscriptions
              /\ \A u \in Tasks \ {t} : tasks[u].sub # tasks[t].sub
        /\ tasks[t].found =>
              /\ tasks[t].accepted # None
              /\ Unwrap(tasks[t].accepted) = <<tasks[t].sub, tasks[t].kind>>
        /\ tasks[t].pc \in {"insert", "inserting"} =>
              tasks[t].sub \notin subscriptions

\* two fetches overlapped and both have returned: one with its event, after
\* it went round on an event of its kind delivered for another fetch, and
\* one without an event
C32_Witness ==
    \E t \in Tasks : \E u \in Tasks \ {t} :
        /\ tasks[t].pc = "insert"
        /\ tasks[t].found
        /\ tasks[t].ignored_foreign
        /\ tasks[u].pc = "insert"
        /\ ~tasks[u].found
        /\ subscriptions = {}

\* no task holds two of the mutexes db, apns_client and cache
C36_NoNesting ==
    \A t \in Tasks : Cardinality({m \in InnerLocks : locks[m] = Some(t)}) <= 1

\* when the connections share the manager inside a Mutex, a connection that
\* is inside its call holds it, and one that waits for it holds nothing
C36_OuterFirst ==
    \A t \in Tasks :
        /\ (locks.wrapped /\ t \in WsTasks /\ tasks[t].pc \notin {"start", "done"}) =>
              nm_holder = Some(t)
        /\ tasks[t].pc \in {"start", "done"} =>
              \A m \in InnerLocks : locks[m] # Some(t)

\* as long as a task has not returned, some task can take a step
C36_NoDeadlock ==
    (\E t \in Tasks : tasks[t].pc # "done") => ENABLED NextLocks

\* C36: locks are never nested between the database, APNs and cache
\* mutexes, and the outer mutex of the manager is taken first; no
\* interleaving of the calls of the connections and the HTTP handler
\* reaches a deadlock; and every call of a connection returns, given that
\* the relay and the APNs client answer.
C36_NoNestedLocksNoDeadlock ==
    /\ [](C36_NoNesting /\ C36_OuterFirst /\ C36_NoDeadlock)
    /\ \A t \in Tasks : <>(tasks[t].pc = "done")

\* a chain of waiting: w2 waits for the manager that w1 holds, and w1 waits
\* for the database that the HTTP handler holds
C36_Witness ==
    /\ locks.wrapped
    /\ nm_holder = Some("w1")
    /\ tasks["w2"].pc = "start"
    /\ tasks["w1"].pc = "section"
    /\ ProgramOf("w1")[tasks["w1"].i] = "db"
    /\ locks.db = Some("h1")

====
